---- MODULE Spec2Model ----
(***************************************************************************)
(* A model of cjdns' SessionManager (net/SessionManager.c): the session    *)
(* table, the buffer of messages awaiting a lookup, the three interfaces   *)
(* (switch, inside, event) and the periodic maintenance.                   *)
(*                                                                         *)
(* Every handler runs to completion on one event loop, so each handler is  *)
(* one action.  A handler is written as an operator from the manager's     *)
(* state (a record st) to its state afterwards; the action then stores the *)
(* record in the variables.  A failed Assert_true aborts the process: the  *)
(* record's field failed is set, and no handler runs afterwards.           *)
(*                                                                         *)
(* What a handler sends or frees is kept in out, in order, until the       *)
(* handler has returned; announced, ended and latched remember the receive *)
(* handles that a SESSION event, a SESSION_ENDED event and a set foundKey  *)
(* were seen for.                                                          *)
(*                                                                         *)
(* Time is counted in units of 10 000 ms (the timer's period).             *)
(***************************************************************************)
EXTENDS Integers, Sequences, FiniteSets, TLC

\* ------------------------------------------------------------------ bounds

\* Sessions ever created in one run (caps the map's nextHandle counter).
MaxSlots == 3
\* Clock steps in one run.
MaxElapsed == 2

\* ------------------------------------------------------- program constants

MIN_FIRST_HANDLE == 4
MAX_FIRST_HANDLE == 100000

\* The configurables that SessionManager_new sets: a configuration with a
\* time-out of one timer period, a search after one period and room for
\* two buffered messages.
sessionTimeoutMilliseconds == 1
sessionSearchAfterMilliseconds == 1
maxBufferedMessages == 2
\* The literal 10000 of checkTimedOutBuffers, one time unit.
BufferTimeout == 1

\* struct Pathfinder_pvt: the values of state.
Pathfinder_pvt_state_INITIALIZING == 0
Pathfinder_pvt_state_RUNNING == 1

\* wire/Metric.h
Metric_DEAD_LINK == 7
Metric_SM_SEND == 6
Metric_SM_INCOMING == 5
\* A metric the pathfinder reports for a path it knows.
Metric_PF == 1

\* crypto/CryptoAuth.h
CryptoAuth_State_INIT == 0
CryptoAuth_State_SENT_HELLO == 1
CryptoAuth_State_RECEIVED_HELLO == 2
CryptoAuth_State_SENT_KEY == 3
CryptoAuth_State_RECEIVED_KEY == 4
CryptoAuth_State_ESTABLISHED == 100

\* Width of a switch label in the model (64 in the code).
LabelBits == 3
\* bytesIn and bytesOut are uint64_t; the model counts modulo 2.
CounterModulus == 2
\* The handle of a control frame, 0xffffffff in the code.
Handle_CTRL == 2147483647
\* "No handle at this place of the frame."
NoHandle == -1

\* ------------------------------------------------------------ value domains

ZeroKey == 0
ZeroIp == 0
\* Public keys: 11, 12 and 13 are peers, 14 is this node's own key, 15 is a
\* key whose address does not start with 0xfc.
PeerKeys == {11, 12, 13}
OwnKey == 14
NonFcKey == 15
\* Addresses starting with 0xfc: the peers' and this node's.
FcIps == {1, 2, 3, 4}
PeerIps == {1, 2, 3}

\* crypto/AddressCalc.h: the address is a hash of the key.
AddressCalc_addressForPublicKey(key) ==
    CASE key = 11 -> 1
      [] key = 12 -> 2
      [] key = 13 -> 3
      [] key = 14 -> 4
      [] key = 15 -> 8
      [] OTHER -> 9

AddressCalc_validAddress(ip6) == ip6 \in FcIps

Labels == {0, 1, 2}
Versions == {0, 1}
Metrics == {Metric_PF, Metric_SM_INCOMING, Metric_SM_SEND, Metric_DEAD_LINK}
ContentTypes == {"CJDHT", "DATA"}

RECURSIVE bitReverse(_, _)
bitReverse(x, n) ==
    IF n = 0 THEN 0 ELSE (x % 2) * (2 ^ (n - 1)) + bitReverse(x \div 2, n - 1)

\* Bits_bitReverse64, on labels of LabelBits bits.
Bits_bitReverse64(x) == bitReverse(x, LabelBits)

\* The values Random_uint32 is drawn from.
RandomValues == {0, MAX_FIRST_HANDLE - MIN_FIRST_HANDLE - 1,
                 MAX_FIRST_HANDLE - MIN_FIRST_HANDLE}

VARIABLES
    firstHandle,   \* sm->firstHandle
    ifaceMap,      \* sm->ifaceMap: sequence of [key, handle, value]
    nextHandle,    \* sm->ifaceMap.nextHandle
    bufMap,        \* sm->bufMap: sequence of [key, value]
    now,           \* Time_currentTimeMilliseconds
    failed,        \* an Assert_true failed: the process is gone
    out,           \* what the last handler sent or freed, in order
    announced,     \* receive handles a SESSION event was emitted for
    ended,         \* receive handles a SESSION_ENDED event was emitted for
    latched,       \* receive handles of the sessions seen with foundKey set
    pfState,       \* pf->state
    pfOut          \* what the pathfinder's last handler called or sent

vars == <<firstHandle, ifaceMap, nextHandle, bufMap, now, failed, out,
          announced, ended, latched, pfState, pfOut>>

\* The clock when the manager is constructed: a wall clock, far from zero.
StartTime == sessionTimeoutMilliseconds + sessionSearchAfterMilliseconds + BufferTimeout

\* ------------------------------------------------------------ util/Map.h

\* Index of key in map, 0 when absent (the code's -1).
Map_indexForKey(map, key) ==
    IF \E i \in 1..Len(map) : map[i].key = key
    THEN CHOOSE i \in 1..Len(map) : map[i].key = key
    ELSE 0

Map_indexForHandle(map, handle) ==
    IF \E i \in 1..Len(map) : map[i].handle = handle
    THEN CHOOSE i \in 1..Len(map) : map[i].handle = handle
    ELSE 0

\* A variant of Map_remove that moves the keys and the values down and
\* leaves the handles where they were.
Map_removeKeepingHandles(map, index) ==
    IF index >= 1 /\ index <= Len(map)
    THEN [i \in 1..(Len(map) - 1) |->
            IF i < index THEN map[i]
            ELSE [map[i + 1] EXCEPT !.handle = map[i].handle]]
    ELSE map

\* Entries after index move down by one.
Map_remove(map, index) ==
    IF index >= 1 /\ index <= Len(map)
    THEN SubSeq(map, 1, index - 1) \o SubSeq(map, index + 1, Len(map))
    ELSE map

\* A variant of Map_newHandle that numbers a new entry by its place.
Map_reusedHandle(map, next) == Len(map)

\* The handle of a new entry: the map's counter, which only grows.
Map_newHandle(map, next) == next

\* A new key is appended and gets the next handle; a known key keeps its
\* place and handle.
Map_put(map, key, value, handle) ==
    LET i == Map_indexForKey(map, key)
    IN IF i = 0
       THEN Append(map, [key |-> key, handle |-> handle, value |-> value])
       ELSE [map EXCEPT ![i].value = value]

\* ------------------------------------------------------ crypto/CryptoAuth.h

CryptoAuth_newSession(pubKey) ==
    [herPublicKey |-> pubKey, state |-> CryptoAuth_State_INIT]

CryptoAuth_getState(ca) == ca.state

\* The session returns to INIT when CryptoAuth finds it timed out.
CryptoAuth_resetIfTimeout(ca, caTimedOut) ==
    IF caTimedOut THEN [ca EXCEPT !.state = CryptoAuth_State_INIT] ELSE ca

\* The first packets sent are the hello (from INIT) or the key (after a
\* hello was received).
CryptoAuth_encrypt(ca) ==
    [ca EXCEPT !.state =
        IF ca.state = CryptoAuth_State_INIT THEN CryptoAuth_State_SENT_HELLO
        ELSE IF ca.state = CryptoAuth_State_RECEIVED_HELLO THEN CryptoAuth_State_SENT_KEY
        ELSE ca.state]

\* Whether CryptoAuth can accept the packet at all: a hello (nonce 0, 1) comes
\* from the key the session knows or fixes a key not yet known; a key
\* packet (nonce 2, 3) answers a hello this side sent; a data packet
\* (nonce >= 4) needs the shared secret.
CryptoAuth_canDecrypt(ca, nonce, publicKey) ==
    IF nonce <= 1
    THEN ca.herPublicKey \in {ZeroKey, publicKey}
    ELSE IF nonce <= 3
    THEN ca.herPublicKey = publicKey
         /\ ca.state \in {CryptoAuth_State_SENT_HELLO, CryptoAuth_State_RECEIVED_KEY}
    ELSE ca.state >= CryptoAuth_State_SENT_KEY

\* CryptoAuth_decrypt: ret is 0 on success.  authentic says whether the
\* packet's authenticator verifies.
CryptoAuth_decrypt(ca, nonce, publicKey, authentic) ==
    IF ~authentic \/ ~CryptoAuth_canDecrypt(ca, nonce, publicKey)
    THEN [ret |-> 1, ca |-> ca]
    ELSE IF nonce <= 1
    THEN [ret |-> 0, ca |-> [herPublicKey |-> publicKey,
                             state |-> CryptoAuth_State_RECEIVED_HELLO]]
    ELSE IF nonce <= 3
    THEN [ret |-> 0, ca |-> [ca EXCEPT !.state = CryptoAuth_State_RECEIVED_KEY]]
    ELSE [ret |-> 0, ca |-> [ca EXCEPT !.state = CryptoAuth_State_ESTABLISHED]]

\* ------------------------------------------------------------ the manager

\* The manager's state as a record, for the handlers to work on.
State ==
    [map |-> ifaceMap, next |-> nextHandle, buf |-> bufMap, out |-> <<>>,
     failed |-> FALSE, idx |-> 0]

Fail(st) == [st EXCEPT !.failed = TRUE]

Emit(st, o) == [st EXCEPT !.out = Append(st.out, o)]

\* sendSession: a PFChan_Node about the session; sess names the session
\* the event is about by its receive handle.
sendSession(st, sess, path, ev) ==
    Emit(st, [if |-> "event", ev |-> ev,
              ip6 |-> AddressCalc_addressForPublicKey(sess.caSession.herPublicKey),
              publicKey |-> sess.caSession.herPublicKey,
              path |-> path, metric |-> sess.metric, version |-> sess.version,
              sess |-> sess.receiveHandle])

\* check: binds the map's key to the peer's key the first time it is known.
check(st, mapIndex) ==
    LET ssp == st.map[mapIndex].value
    IN IF ssp.foundKey THEN st
       ELSE IF ssp.caSession.herPublicKey # ZeroKey
       THEN IF AddressCalc_addressForPublicKey(ssp.caSession.herPublicKey)
                   # st.map[mapIndex].key
            THEN Fail(st)
            ELSE [st EXCEPT !.map[mapIndex].value.foundKey = TRUE]
       ELSE st

\* sessionForHandle: st.idx is the index found, 0 for NULL.
sessionForHandle(st, handle) ==
    LET index == Map_indexForHandle(st.map, handle - firstHandle)
    IN IF index = 0 THEN [st EXCEPT !.idx = 0]
       ELSE [check(st, index) EXCEPT !.idx = index]

sessionForIp6(st, ip6) ==
    LET ifaceIndex == Map_indexForKey(st.map, ip6)
    IN IF ifaceIndex = 0 THEN [st EXCEPT !.idx = 0]
       ELSE [check(st, ifaceIndex) EXCEPT !.idx = ifaceIndex]

\* A variant of updateSession that takes the caller's path whatever its
\* metric.
updateSessionAnyMetric(sess, version, label, metric, maintainSession) ==
    LET s1 == [sess EXCEPT
                 !.version = IF sess.version # 0 THEN sess.version ELSE version,
                 !.maintainSession = sess.maintainSession \/ maintainSession]
    IN IF metric = Metric_DEAD_LINK
       THEN IF s1.sendSwitchLabel = label
            THEN IF s1.sendSwitchLabel = s1.recvSwitchLabel
                 THEN [s1 EXCEPT !.sendSwitchLabel = 0, !.metric = Metric_DEAD_LINK]
                 ELSE [s1 EXCEPT !.sendSwitchLabel = s1.recvSwitchLabel,
                                 !.metric = Metric_SM_INCOMING]
            ELSE s1
       ELSE IF label # 0
       THEN [s1 EXCEPT !.sendSwitchLabel = label,
                       !.version = IF version # 0 THEN version ELSE s1.version,
                       !.metric = metric]
       ELSE s1

\* A variant of updateSession that takes the caller's version, zero or not.
updateSessionAdoptingVersion(sess, version, label, metric, maintainSession) ==
    LET s1 == [sess EXCEPT
                 !.version = version,
                 !.maintainSession = sess.maintainSession \/ maintainSession]
    IN IF metric = Metric_DEAD_LINK
       THEN IF s1.sendSwitchLabel = label
            THEN IF s1.sendSwitchLabel = s1.recvSwitchLabel
                 THEN [s1 EXCEPT !.sendSwitchLabel = 0, !.metric = Metric_DEAD_LINK]
                 ELSE [s1 EXCEPT !.sendSwitchLabel = s1.recvSwitchLabel,
                                 !.metric = Metric_SM_INCOMING]
            ELSE s1
       ELSE IF metric <= s1.metric /\ label # 0
       THEN [s1 EXCEPT !.sendSwitchLabel = label,
                       !.version = IF version # 0 THEN version ELSE s1.version,
                       !.metric = metric]
       ELSE s1

\* A variant of updateSession that, told of a broken path, drops the path
\* whatever the label the peer's frames come in on.
updateSessionDroppingPath(sess, version, label, metric, maintainSession) ==
    LET s1 == [sess EXCEPT
                 !.version = IF sess.version # 0 THEN sess.version ELSE version,
                 !.maintainSession = sess.maintainSession \/ maintainSession]
    IN IF metric = Metric_DEAD_LINK
       THEN IF s1.sendSwitchLabel = label
            THEN [s1 EXCEPT !.sendSwitchLabel = 0, !.metric = Metric_DEAD_LINK]
            ELSE s1
       ELSE IF metric <= s1.metric /\ label # 0
       THEN [s1 EXCEPT !.sendSwitchLabel = label,
                       !.version = IF version # 0 THEN version ELSE s1.version,
                       !.metric = metric]
       ELSE s1

\* A variant of updateSession that takes a path without a label.
updateSessionAnyLabel(sess, version, label, metric, maintainSession) ==
    LET s1 == [sess EXCEPT
                 !.version = IF sess.version # 0 THEN sess.version ELSE version,
                 !.maintainSession = sess.maintainSession \/ maintainSession]
    IN IF metric = Metric_DEAD_LINK
       THEN IF s1.sendSwitchLabel = label
            THEN IF s1.sendSwitchLabel = s1.recvSwitchLabel
                 THEN [s1 EXCEPT !.sendSwitchLabel = 0, !.metric = Metric_DEAD_LINK]
                 ELSE [s1 EXCEPT !.sendSwitchLabel = s1.recvSwitchLabel,
                                 !.metric = Metric_SM_INCOMING]
            ELSE s1
       ELSE IF metric <= s1.metric
       THEN [s1 EXCEPT !.sendSwitchLabel = label,
                       !.version = IF version # 0 THEN version ELSE s1.version,
                       !.metric = metric]
       ELSE s1

\* A variant of updateSession that assigns maintainSession.
updateSessionAssigningMaintain(sess, version, label, metric, maintainSession) ==
    LET s1 == [sess EXCEPT
                 !.version = IF sess.version # 0 THEN sess.version ELSE version,
                 !.maintainSession = maintainSession]
    IN IF metric = Metric_DEAD_LINK
       THEN IF s1.sendSwitchLabel = label
            THEN IF s1.sendSwitchLabel = s1.recvSwitchLabel
                 THEN [s1 EXCEPT !.sendSwitchLabel = 0, !.metric = Metric_DEAD_LINK]
                 ELSE [s1 EXCEPT !.sendSwitchLabel = s1.recvSwitchLabel,
                                 !.metric = Metric_SM_INCOMING]
            ELSE s1
       ELSE IF metric <= s1.metric /\ label # 0
       THEN [s1 EXCEPT !.sendSwitchLabel = label,
                       !.version = IF version # 0 THEN version ELSE s1.version,
                       !.metric = metric]
       ELSE s1

\* getSession, the branch for a session that exists at index i.
updateSession(sess, version, label, metric, maintainSession) ==
    LET s1 == [sess EXCEPT
                 !.version = IF sess.version # 0 THEN sess.version ELSE version,
                 !.maintainSession = sess.maintainSession \/ maintainSession]
    IN IF metric = Metric_DEAD_LINK
       THEN IF s1.sendSwitchLabel = label
            THEN IF s1.sendSwitchLabel = s1.recvSwitchLabel
                 THEN [s1 EXCEPT !.sendSwitchLabel = 0, !.metric = Metric_DEAD_LINK]
                 ELSE [s1 EXCEPT !.sendSwitchLabel = s1.recvSwitchLabel,
                                 !.metric = Metric_SM_INCOMING]
            ELSE s1
       ELSE IF metric <= s1.metric /\ label # 0
       THEN [s1 EXCEPT !.sendSwitchLabel = label,
                       !.version = IF version # 0 THEN version ELSE s1.version,
                       !.metric = metric]
       ELSE s1

\* A variant of newSession that numbers the session by its place in the
\* table, not by the handle the map gives.
newSessionByPlace(slot, pubKey, version, label, metric, maintainSession) ==
    [receiveHandle |-> Len(ifaceMap) + firstHandle,
     sendHandle |-> 0,
     sendSwitchLabel |-> label,
     recvSwitchLabel |-> 0,
     metric |-> metric,
     version |-> version,
     maintainSession |-> maintainSession,
     timeOfLastIn |-> now,
     timeOfKeepAliveIn |-> now,
     timeOfLastOut |-> now,
     lastSearchTime |-> 0,
     bytesIn |-> 0,
     bytesOut |-> 0,
     foundKey |-> (pubKey # ZeroKey),
     caSession |-> CryptoAuth_newSession(pubKey)]

\* getSession, the session it allocates; slot is the handle the map gives.
newSession(slot, pubKey, version, label, metric, maintainSession) ==
    [receiveHandle |-> slot + firstHandle,
     sendHandle |-> 0,
     sendSwitchLabel |-> label,
     recvSwitchLabel |-> 0,
     metric |-> metric,
     version |-> version,
     maintainSession |-> maintainSession,
     timeOfLastIn |-> now,
     timeOfKeepAliveIn |-> now,
     timeOfLastOut |-> now,
     lastSearchTime |-> 0,
     bytesIn |-> 0,
     bytesOut |-> 0,
     foundKey |-> (pubKey # ZeroKey),
     caSession |-> CryptoAuth_newSession(pubKey)]

\* A variant of createSession without the comparison of the key's address
\* with ip6.
createSessionUnchecked(s0, ip6, pubKey, version, label, metric, maintainSession) ==
    LET slot == Map_newHandle(s0.map, s0.next)
        sess == newSession(slot, pubKey, version, label, metric, maintainSession)
        map1 == Map_put(s0.map, ip6, sess, slot)
        ifaceIndex == Map_indexForKey(map1, ip6)
        s1 == [s0 EXCEPT !.map = map1, !.next = s0.next + 1, !.idx = ifaceIndex]
        s2 == sendSession(s1, sess, label, "SESSION")
    IN s2

\* A variant of createSession that announces nothing.
createSessionSilent(s0, ip6, pubKey, version, label, metric, maintainSession) ==
    IF pubKey # ZeroKey /\ AddressCalc_addressForPublicKey(pubKey) # ip6
    THEN Fail(s0)
    ELSE
    LET slot == Map_newHandle(s0.map, s0.next)
        sess == newSession(slot, pubKey, version, label, metric, maintainSession)
        map1 == Map_put(s0.map, ip6, sess, slot)
        ifaceIndex == Map_indexForKey(map1, ip6)
        s1 == [s0 EXCEPT !.map = map1, !.next = s0.next + 1, !.idx = ifaceIndex]
    IN check(s1, ifaceIndex)

\* getSession, from the allocation on: there is no session at ip6.
createSession(s0, ip6, pubKey, version, label, metric, maintainSession) ==
    IF pubKey # ZeroKey /\ AddressCalc_addressForPublicKey(pubKey) # ip6
    THEN Fail(s0)
    ELSE
    LET slot == Map_newHandle(s0.map, s0.next)
        sess == newSession(slot, pubKey, version, label, metric, maintainSession)
        map1 == Map_put(s0.map, ip6, sess, slot)
        ifaceIndex == Map_indexForKey(map1, ip6)
        s1 == [s0 EXCEPT !.map = map1, !.next = s0.next + 1, !.idx = ifaceIndex]
        s2 == sendSession(s1, sess, label, "SESSION")
    IN check(s2, ifaceIndex)

\* getSession: st.idx is the index of the session returned.
getSession(st, ip6, pubKey, version, label, metric, maintainSession) ==
    IF ~AddressCalc_validAddress(ip6) THEN Fail(st)
    ELSE
    LET s0 == sessionForIp6(st, ip6)
    IN IF s0.failed THEN s0
       ELSE IF s0.idx # 0
       THEN [s0 EXCEPT !.map[s0.idx].value =
                updateSession(s0.map[s0.idx].value, version, label, metric,
                              maintainSession)]
       ELSE createSession(s0, ip6, pubKey, version, label, metric, maintainSession)

\* ------------------------------------------------------------ maintenance

\* A variant of TimedOut that ends a session at the time-out, not after it.
TimedOutEarly(sess) == now - sess.timeOfKeepAliveIn >= sessionTimeoutMilliseconds

TimedOut(sess) == now - sess.timeOfKeepAliveIn > sessionTimeoutMilliseconds

\* A variant of unsetupSession that emits the event whatever the session's
\* version and labels.
unsetupSessionAlways(st, sess) ==
    Emit(st, [if |-> "event", ev |-> "UNSETUP_SESSION",
              ip6 |-> AddressCalc_addressForPublicKey(sess.caSession.herPublicKey),
              publicKey |-> sess.caSession.herPublicKey,
              path |-> IF sess.sendSwitchLabel # 0 THEN sess.sendSwitchLabel
                       ELSE sess.recvSwitchLabel,
              metric |-> sess.metric, version |-> sess.version,
              sess |-> sess.receiveHandle])

\* unsetupSession
unsetupSession(st, sess) ==
    IF sess.version = 0 \/ ~(sess.sendSwitchLabel # 0 \/ sess.recvSwitchLabel # 0)
    THEN st
    ELSE Emit(st, [if |-> "event", ev |-> "UNSETUP_SESSION",
                   ip6 |-> AddressCalc_addressForPublicKey(sess.caSession.herPublicKey),
                   publicKey |-> sess.caSession.herPublicKey,
                   path |-> IF sess.sendSwitchLabel # 0 THEN sess.sendSwitchLabel
                            ELSE sess.recvSwitchLabel,
                   metric |-> sess.metric, version |-> sess.version,
                   sess |-> sess.receiveHandle])

\* triggerSearch; sess is the receive handle of the session the search is
\* for, 0 when it is for a buffered message.
triggerSearch(st, target, version, sess) ==
    Emit(st, [if |-> "event", ev |-> "SEARCH_REQ", ip6 |-> target,
              publicKey |-> ZeroKey, path |-> 0, metric |-> 0,
              version |-> version, sess |-> sess])

\* A variant of checkSession that reports a session that is not set up
\* whether the session is maintained or not.
checkSessionUnsettingAll(st, i) ==
    LET sess == st.map[i].value
    IN IF TimedOut(sess)
       THEN LET s1 == sendSession(st, sess, sess.sendSwitchLabel, "SESSION_ENDED")
            IN [s1 EXCEPT !.map = Map_remove(s1.map, i)]
       ELSE IF sess.maintainSession
               /\ now - sess.lastSearchTime >= sessionSearchAfterMilliseconds
       THEN LET s1 == triggerSearch(st,
                         AddressCalc_addressForPublicKey(sess.caSession.herPublicKey),
                         sess.version, sess.receiveHandle)
            IN [s1 EXCEPT !.map[i].value.lastSearchTime = now]
       ELSE IF CryptoAuth_getState(sess.caSession) < CryptoAuth_State_RECEIVED_KEY
       THEN unsetupSession(st, sess)
       ELSE st

\* A variant of checkSession that searches for a session without noting
\* the time of the search.
checkSessionSearchingOn(st, i) ==
    LET sess == st.map[i].value
    IN IF TimedOut(sess)
       THEN LET s1 == sendSession(st, sess, sess.sendSwitchLabel, "SESSION_ENDED")
            IN [s1 EXCEPT !.map = Map_remove(s1.map, i)]
       ELSE IF ~sess.maintainSession THEN st
       ELSE IF now - sess.lastSearchTime >= sessionSearchAfterMilliseconds
       THEN triggerSearch(st,
               AddressCalc_addressForPublicKey(sess.caSession.herPublicKey),
               sess.version, sess.receiveHandle)
       ELSE IF CryptoAuth_getState(sess.caSession) < CryptoAuth_State_RECEIVED_KEY
       THEN unsetupSession(st, sess)
       ELSE st

\* A variant of checkSession that reports a session as ended and keeps it.
checkSessionKeeping(st, i) ==
    LET sess == st.map[i].value
    IN IF TimedOut(sess)
       THEN sendSession(st, sess, sess.sendSwitchLabel, "SESSION_ENDED")
       ELSE st

\* One turn of checkTimedOutSessions' loop, on the session at index i.
checkSession(st, i) ==
    LET sess == st.map[i].value
    IN IF TimedOut(sess)
       THEN LET s1 == sendSession(st, sess, sess.sendSwitchLabel, "SESSION_ENDED")
            IN [s1 EXCEPT !.map = Map_remove(s1.map, i)]
       ELSE IF ~sess.maintainSession THEN st
       ELSE IF now - sess.lastSearchTime >= sessionSearchAfterMilliseconds
       THEN LET s1 == triggerSearch(st,
                         AddressCalc_addressForPublicKey(sess.caSession.herPublicKey),
                         sess.version, sess.receiveHandle)
            IN [s1 EXCEPT !.map[i].value.lastSearchTime = now]
       ELSE IF CryptoAuth_getState(sess.caSession) < CryptoAuth_State_RECEIVED_KEY
       THEN unsetupSession(st, sess)
       ELSE st

\* checkTimedOutSessions: from the last index down to the first.
RECURSIVE sessionsLoop(_, _)
sessionsLoop(st, i) ==
    IF i < 1 THEN st ELSE sessionsLoop(checkSession(st, i), i - 1)

checkTimedOutSessions(st) == sessionsLoop(st, Len(st.map))

\* A variant of buffersLoop that goes on to the next index after a removal.
RECURSIVE buffersLoopSkipping(_, _)
buffersLoopSkipping(st, i) ==
    IF i > Len(st.buf) THEN st
    ELSE LET buffered == st.buf[i].value
         IN IF now - buffered.timeSentMilliseconds < BufferTimeout
            THEN buffersLoopSkipping(st, i + 1)
            ELSE buffersLoopSkipping(
                    Emit([st EXCEPT !.buf = Map_remove(st.buf, i)],
                         [if |-> "free", key |-> st.buf[i].key, msg |-> buffered]),
                    i + 1)

\* checkTimedOutBuffers: the loop at index i; a removal keeps i in place.
RECURSIVE buffersLoop(_, _)
buffersLoop(st, i) ==
    IF i > Len(st.buf) THEN st
    ELSE LET buffered == st.buf[i].value
         IN IF now - buffered.timeSentMilliseconds < BufferTimeout
            THEN buffersLoop(st, i + 1)
            ELSE buffersLoop(
                    Emit([st EXCEPT !.buf = Map_remove(st.buf, i)],
                         [if |-> "free", key |-> st.buf[i].key, msg |-> buffered]),
                    i)

checkTimedOutBuffers(st) == buffersLoop(st, 1)

\* periodically
periodically(st) == checkTimedOutBuffers(checkTimedOutSessions(st))

\* ------------------------------------------------------------ buffering

\* A variant of needsLookup that stores over a message already waiting.
needsLookupKeepingOlder(st, msg) ==
    IF msg.contentType = "CJDHT" THEN Fail(st)
    ELSE
    LET s2 == IF Len(st.buf) >= maxBufferedMessages
              THEN checkTimedOutBuffers(st)
              ELSE st
    IN IF Len(s2.buf) >= maxBufferedMessages
       THEN s2
       ELSE LET buffered == [msg |-> msg, timeSentMilliseconds |-> now]
                s3 == [s2 EXCEPT !.buf = Map_put(s2.buf, msg.ip6, buffered, 0)]
            IN triggerSearch(s3, msg.ip6, msg.version, 0)

\* A variant of needsLookup that stores whether there is room or not.
needsLookupUnbounded(st, msg) ==
    IF msg.contentType = "CJDHT" THEN Fail(st)
    ELSE
    LET index == Map_indexForKey(st.buf, msg.ip6)
        s1 == IF index > 0
              THEN Emit([st EXCEPT !.buf = Map_remove(st.buf, index)],
                        [if |-> "free", key |-> msg.ip6, msg |-> st.buf[index].value])
              ELSE st
        s2 == IF Len(s1.buf) >= maxBufferedMessages
              THEN checkTimedOutBuffers(s1)
              ELSE s1
        buffered == [msg |-> msg, timeSentMilliseconds |-> now]
        s3 == [s2 EXCEPT !.buf = Map_put(s2.buf, msg.ip6, buffered, 0)]
    IN triggerSearch(s3, msg.ip6, msg.version, 0)

\* A variant of needsLookup that searches for the address of a message it
\* drops because the buffer is full.
needsLookupSearchingDropped(st, msg) ==
    IF msg.contentType = "CJDHT" THEN Fail(st)
    ELSE
    LET index == Map_indexForKey(st.buf, msg.ip6)
        s1 == IF index > 0
              THEN Emit([st EXCEPT !.buf = Map_remove(st.buf, index)],
                        [if |-> "free", key |-> msg.ip6, msg |-> st.buf[index].value])
              ELSE st
        s2 == IF Len(s1.buf) >= maxBufferedMessages
              THEN checkTimedOutBuffers(s1)
              ELSE s1
    IN IF Len(s2.buf) >= maxBufferedMessages
       THEN triggerSearch(s2, msg.ip6, msg.version, 0)
       ELSE LET buffered == [msg |-> msg, timeSentMilliseconds |-> now]
                s3 == [s2 EXCEPT !.buf = Map_put(s2.buf, msg.ip6, buffered, 0)]
            IN triggerSearch(s3, msg.ip6, msg.version, 0)

\* A variant of needsLookup that stores the message and asks for no search.
needsLookupSilent(st, msg) ==
    IF msg.contentType = "CJDHT" THEN Fail(st)
    ELSE
    LET index == Map_indexForKey(st.buf, msg.ip6)
        s1 == IF index > 0
              THEN Emit([st EXCEPT !.buf = Map_remove(st.buf, index)],
                        [if |-> "free", key |-> msg.ip6, msg |-> st.buf[index].value])
              ELSE st
        s2 == IF Len(s1.buf) >= maxBufferedMessages
              THEN checkTimedOutBuffers(s1)
              ELSE s1
    IN IF Len(s2.buf) >= maxBufferedMessages
       THEN s2
       ELSE LET buffered == [msg |-> msg, timeSentMilliseconds |-> now]
            IN [s2 EXCEPT !.buf = Map_put(s2.buf, msg.ip6, buffered, 0)]

\* needsLookup: msg is the frame with its route header as it stands.
needsLookup(st, msg) ==
    IF msg.contentType = "CJDHT" THEN Fail(st)
    ELSE
    LET index == Map_indexForKey(st.buf, msg.ip6)
        s1 == IF index > 0
              THEN Emit([st EXCEPT !.buf = Map_remove(st.buf, index)],
                        [if |-> "free", key |-> msg.ip6, msg |-> st.buf[index].value])
              ELSE st
        s2 == IF Len(s1.buf) >= maxBufferedMessages
              THEN checkTimedOutBuffers(s1)
              ELSE s1
    IN IF Len(s2.buf) >= maxBufferedMessages
       THEN s2
       ELSE LET buffered == [msg |-> msg, timeSentMilliseconds |-> now]
                s3 == [s2 EXCEPT !.buf = Map_put(s2.buf, msg.ip6, buffered, 0)]
            IN triggerSearch(s3, msg.ip6, msg.version, 0)

\* ------------------------------------------------------------ sending

\* A variant of readyToSend that notes the time of sending for every
\* payload, CJDHT too.
readyToSendNotingAll(st, msg, i, caTimedOut) ==
    LET sess == st.map[i].value
        ca1 == CryptoAuth_resetIfTimeout(sess.caSession, caTimedOut)
        preKey == CryptoAuth_getState(ca1) < CryptoAuth_State_RECEIVED_KEY
        ca2 == CryptoAuth_encrypt(ca1)
        postKey == CryptoAuth_getState(ca2) >= CryptoAuth_State_RECEIVED_KEY
        sess1 == [sess EXCEPT
                    !.timeOfLastOut = now,
                    !.bytesOut = (@ + 1) % CounterModulus,
                    !.caSession = ca2]
        frame == [if |-> "switch", kind |-> "data",
                  label |-> IF msg.label = 0 THEN sess.sendSwitchLabel ELSE msg.label,
                  innerHandle |-> IF preKey THEN sess.receiveHandle ELSE NoHandle,
                  outerHandle |-> IF postKey THEN sess.sendHandle ELSE NoHandle,
                  caState |-> CryptoAuth_getState(ca1),
                  contentType |-> msg.contentType,
                  ip6 |-> msg.ip6,
                  sess |-> sess.receiveHandle]
    IN Emit([st EXCEPT !.map[i].value = sess1], frame)

\* A variant of readyToSend that puts the receive handle into every
\* payload, whatever the crypto session's state.
readyToSendBothHandles(st, msg, i, caTimedOut) ==
    LET sess == st.map[i].value
        ca1 == CryptoAuth_resetIfTimeout(sess.caSession, caTimedOut)
        ca2 == CryptoAuth_encrypt(ca1)
        postKey == CryptoAuth_getState(ca2) >= CryptoAuth_State_RECEIVED_KEY
        sess1 == [sess EXCEPT
                    !.timeOfLastOut = IF msg.contentType # "CJDHT" THEN now ELSE @,
                    !.bytesOut = (@ + 1) % CounterModulus,
                    !.caSession = ca2]
        frame == [if |-> "switch", kind |-> "data",
                  label |-> IF msg.label = 0 THEN sess.sendSwitchLabel ELSE msg.label,
                  innerHandle |-> sess.receiveHandle,
                  outerHandle |-> IF postKey THEN sess.sendHandle ELSE NoHandle,
                  caState |-> CryptoAuth_getState(ca1),
                  contentType |-> msg.contentType,
                  ip6 |-> msg.ip6,
                  sess |-> sess.receiveHandle]
    IN Emit([st EXCEPT !.map[i].value = sess1], frame)

\* readyToSend: the session is the one at index i.
readyToSend(st, msg, i, caTimedOut) ==
    LET sess == st.map[i].value
        ca1 == CryptoAuth_resetIfTimeout(sess.caSession, caTimedOut)
        preKey == CryptoAuth_getState(ca1) < CryptoAuth_State_RECEIVED_KEY
        ca2 == CryptoAuth_encrypt(ca1)
        postKey == CryptoAuth_getState(ca2) >= CryptoAuth_State_RECEIVED_KEY
        sess1 == [sess EXCEPT
                    !.timeOfLastOut = IF msg.contentType # "CJDHT" THEN now ELSE @,
                    !.bytesOut = (@ + 1) % CounterModulus,
                    !.caSession = ca2]
        frame == [if |-> "switch", kind |-> "data",
                  label |-> IF msg.label = 0 THEN sess.sendSwitchLabel ELSE msg.label,
                  innerHandle |-> IF preKey THEN sess.receiveHandle ELSE NoHandle,
                  outerHandle |-> IF postKey THEN sess.sendHandle ELSE NoHandle,
                  caState |-> CryptoAuth_getState(ca1),
                  contentType |-> msg.contentType,
                  ip6 |-> msg.ip6,
                  sess |-> sess.receiveHandle]
    IN Emit([st EXCEPT !.map[i].value = sess1], frame)

\* outgoingCtrlFrame
outgoingCtrlFrame(st, msg) ==
    IF msg.publicKey # ZeroKey \/ msg.ip6 # ZeroIp THEN st
    ELSE Emit(st, [if |-> "switch", kind |-> "ctrl", label |-> msg.label,
                   innerHandle |-> NoHandle, outerHandle |-> Handle_CTRL,
                   caState |-> 0, contentType |-> msg.contentType,
                   ip6 |-> ZeroIp, sess |-> 0])

\* A variant of insideWithSession that keeps every payload, CJDHT too, from
\* a crypto session that has not received the peer's key.
insideWithSessionAllSecret(s1, msg, caTimedOut) ==
    LET s2 == IF msg.version # 0
              THEN [s1 EXCEPT !.map[s1.idx].value.version = msg.version]
              ELSE s1
        sess == s2.map[s2.idx].value
    IN IF sess.version = 0 THEN needsLookup(s2, msg)
       ELSE IF msg.label = 0 /\ sess.sendSwitchLabel = 0 THEN needsLookup(s2, msg)
       ELSE
       LET msg1 == IF msg.label = 0 THEN [msg EXCEPT !.label = sess.sendSwitchLabel]
                   ELSE msg
           ca1 == CryptoAuth_resetIfTimeout(sess.caSession, caTimedOut)
           s3 == [s2 EXCEPT !.map[s2.idx].value.caSession = ca1]
       IN IF CryptoAuth_getState(ca1) < CryptoAuth_State_RECEIVED_KEY
          THEN needsLookup(s3, msg1)
          ELSE readyToSend(s3, msg1, s3.idx, caTimedOut)

\* incomingFromInsideIf, from the session lookup on; s1 holds the session
\* at s1.idx.
insideWithSession(s1, msg, caTimedOut) ==
    LET s2 == IF msg.version # 0
              THEN [s1 EXCEPT !.map[s1.idx].value.version = msg.version]
              ELSE s1
        sess == s2.map[s2.idx].value
    IN IF sess.version = 0 THEN needsLookup(s2, msg)
       ELSE IF msg.label = 0 /\ sess.sendSwitchLabel = 0 THEN needsLookup(s2, msg)
       ELSE
       LET msg1 == IF msg.label = 0 THEN [msg EXCEPT !.label = sess.sendSwitchLabel]
                   ELSE msg
           ca1 == CryptoAuth_resetIfTimeout(sess.caSession, caTimedOut)
           s3 == [s2 EXCEPT !.map[s2.idx].value.caSession = ca1]
       IN IF msg1.contentType # "CJDHT"
             /\ CryptoAuth_getState(ca1) < CryptoAuth_State_RECEIVED_KEY
          THEN needsLookup(s3, msg1)
          ELSE readyToSend(s3, msg1, s3.idx, caTimedOut)

\* A variant of incomingFromInsideIf that calls getSession for a session
\* that exists, too.
incomingFromInsideIfUpdating(st, msg, caTimedOut) ==
    IF msg.ctrl THEN outgoingCtrlFrame(st, msg)
    ELSE
    LET s0 == sessionForIp6(st, msg.ip6)
    IN IF s0.failed THEN s0
       ELSE IF s0.idx = 0 /\ ~(msg.publicKey # ZeroKey /\ msg.version # 0)
       THEN needsLookup(s0, msg)
       ELSE LET s1 == getSession(s0, msg.ip6, msg.publicKey, msg.version,
                                 msg.label, Metric_SM_SEND, ~msg.pathfinder)
            IN IF s1.failed THEN s1
               ELSE insideWithSession(s1, msg, caTimedOut)

\* incomingFromInsideIf
incomingFromInsideIf(st, msg, caTimedOut) ==
    IF msg.ctrl THEN outgoingCtrlFrame(st, msg)
    ELSE
    LET s0 == sessionForIp6(st, msg.ip6)
    IN IF s0.failed THEN s0
       ELSE IF s0.idx = 0
       THEN IF msg.publicKey # ZeroKey /\ msg.version # 0
            THEN LET s1 == getSession(s0, msg.ip6, msg.publicKey, msg.version,
                                      msg.label, Metric_SM_SEND, ~msg.pathfinder)
                 IN IF s1.failed THEN s1
                    ELSE insideWithSession(s1, msg, caTimedOut)
            ELSE needsLookup(s0, msg)
       ELSE insideWithSession(s0, msg, caTimedOut)

\* ------------------------------------------------------------ receiving

\* ctrlFrame
ctrlFrame(st, msg) ==
    Emit(st, [if |-> "inside", kind |-> "ctrl", ip6 |-> ZeroIp,
              publicKey |-> ZeroKey, version |-> 0,
              label |-> Bits_bitReverse64(msg.label), flags |-> {"INCOMING", "CTRLMSG"},
              contentType |-> msg.contentType, sess |-> 0])

\* failedDecrypt, with what incomingFromSwitchIf puts in the frame before:
\* the state of the session, the error and the first sixteen bytes of the
\* frame, which begin with its nonce or handle.
failedDecrypt(st, label, ret, caState, firstSixteen) ==
    Emit(st, [if |-> "switch", kind |-> "failedDecrypt", label |-> label,
              innerHandle |-> NoHandle, outerHandle |-> Handle_CTRL,
              caState |-> caState, contentType |-> "ERROR", ip6 |-> ZeroIp,
              sess |-> 0, suppressErrors |-> TRUE, ret |-> ret,
              firstSixteen |-> firstSixteen])

\* A variant of switchDecrypt that counts the frame and notes its time
\* before it is decrypted.
switchDecryptCounting(st, msg, path) ==
    LET sess == [st.map[st.idx].value EXCEPT
                    !.bytesIn = (@ + 1) % CounterModulus,
                    !.timeOfKeepAliveIn = now]
        currentMessageSetup == msg.nonceOrHandle <= 3
        nonce == IF currentMessageSetup THEN msg.nonceOrHandle ELSE msg.nonce
        d == CryptoAuth_decrypt(sess.caSession, nonce, msg.publicKey, msg.authentic)
    IN IF d.ret # 0
       THEN failedDecrypt([st EXCEPT !.map[st.idx].value = sess], path, d.ret,
                          CryptoAuth_getState(sess.caSession), msg.nonceOrHandle)
       ELSE
       LET sess1 == [sess EXCEPT
                       !.caSession = d.ca,
                       !.sendHandle = IF currentMessageSetup THEN msg.sendHandle ELSE @,
                       !.timeOfLastIn = IF msg.contentType # "CJDHT" THEN now ELSE @,
                       !.sendSwitchLabel = IF @ = 0 THEN path ELSE @]
           sess2 == [sess1 EXCEPT !.recvSwitchLabel = path]
           s1 == [st EXCEPT !.map[st.idx].value = sess2]
           s2 == IF path # sess1.recvSwitchLabel
                 THEN sendSession(s1, sess2, path, "DISCOVERED_PATH")
                 ELSE s1
       IN Emit(s2, [if |-> "inside", kind |-> "data",
                    ip6 |-> AddressCalc_addressForPublicKey(sess2.caSession.herPublicKey),
                    publicKey |-> sess2.caSession.herPublicKey,
                    version |-> sess2.version, label |-> path,
                    flags |-> {"INCOMING"}, contentType |-> msg.contentType,
                    sess |-> sess2.receiveHandle])

\* A variant of switchDecrypt that reports the path of every frame it
\* decrypts, new or not.
switchDecryptAnnouncing(st, msg, path) ==
    LET sess == st.map[st.idx].value
        currentMessageSetup == msg.nonceOrHandle <= 3
        nonce == IF currentMessageSetup THEN msg.nonceOrHandle ELSE msg.nonce
        d == CryptoAuth_decrypt(sess.caSession, nonce, msg.publicKey, msg.authentic)
    IN IF d.ret # 0
       THEN failedDecrypt(st, path, d.ret, CryptoAuth_getState(sess.caSession),
                          msg.nonceOrHandle)
       ELSE
       LET sess1 == [sess EXCEPT
                       !.caSession = d.ca,
                       !.sendHandle = IF currentMessageSetup THEN msg.sendHandle ELSE @,
                       !.timeOfLastIn = IF msg.contentType # "CJDHT" THEN now ELSE @,
                       !.bytesIn = (@ + 1) % CounterModulus,
                       !.timeOfKeepAliveIn = now,
                       !.sendSwitchLabel = IF @ = 0 THEN path ELSE @]
           sess2 == [sess1 EXCEPT !.recvSwitchLabel = path]
           s1 == [st EXCEPT !.map[st.idx].value = sess2]
           s2 == sendSession(s1, sess2, path, "DISCOVERED_PATH")
       IN Emit(s2, [if |-> "inside", kind |-> "data",
                    ip6 |-> AddressCalc_addressForPublicKey(sess2.caSession.herPublicKey),
                    publicKey |-> sess2.caSession.herPublicKey,
                    version |-> sess2.version, label |-> path,
                    flags |-> {"INCOMING"}, contentType |-> msg.contentType,
                    sess |-> sess2.receiveHandle])

\* incomingFromSwitchIf, from CryptoAuth_decrypt on; the session is at
\* st.idx and path is the label of the switch header, bit-reversed.
switchDecrypt(st, msg, path) ==
    LET sess == st.map[st.idx].value
        currentMessageSetup == msg.nonceOrHandle <= 3
        nonce == IF currentMessageSetup THEN msg.nonceOrHandle ELSE msg.nonce
        d == CryptoAuth_decrypt(sess.caSession, nonce, msg.publicKey, msg.authentic)
    IN IF d.ret # 0
       THEN failedDecrypt(st, path, d.ret, CryptoAuth_getState(sess.caSession),
                          msg.nonceOrHandle)
       ELSE
       LET sess1 == [sess EXCEPT
                       !.caSession = d.ca,
                       !.sendHandle = IF currentMessageSetup THEN msg.sendHandle ELSE @,
                       !.timeOfLastIn = IF msg.contentType # "CJDHT" THEN now ELSE @,
                       !.bytesIn = (@ + 1) % CounterModulus,
                       !.timeOfKeepAliveIn = now,
                       !.sendSwitchLabel = IF @ = 0 THEN path ELSE @]
           sess2 == [sess1 EXCEPT !.recvSwitchLabel = path]
           s1 == [st EXCEPT !.map[st.idx].value = sess2]
           s2 == IF path # sess1.recvSwitchLabel
                 THEN sendSession(s1, sess2, path, "DISCOVERED_PATH")
                 ELSE s1
       IN Emit(s2, [if |-> "inside", kind |-> "data",
                    ip6 |-> AddressCalc_addressForPublicKey(sess2.caSession.herPublicKey),
                    publicKey |-> sess2.caSession.herPublicKey,
                    version |-> sess2.version, label |-> path,
                    flags |-> {"INCOMING"}, contentType |-> msg.contentType,
                    sess |-> sess2.receiveHandle])

\* A variant of incomingFromSwitchIf that takes the label as it is on the
\* wire for the path.
incomingFromSwitchIfWireLabel(st, msg, caTimedOut) ==
    IF msg.length = "runt" THEN st
    ELSE
    LET path == msg.label
    IN IF msg.nonceOrHandle = Handle_CTRL THEN ctrlFrame(st, msg)
       ELSE IF msg.length = "short" THEN st
       ELSE IF msg.nonceOrHandle > 3
       THEN LET s0 == sessionForHandle(st, msg.nonceOrHandle)
            IN IF s0.failed \/ s0.idx = 0 THEN s0
               ELSE IF msg.nonce < 4 THEN s0
               ELSE switchDecrypt(s0, msg, path)
       ELSE IF ~AddressCalc_validAddress(AddressCalc_addressForPublicKey(msg.publicKey))
       THEN st
       ELSE IF msg.publicKey = OwnKey THEN st
       ELSE
       LET s0 == getSession(st, AddressCalc_addressForPublicKey(msg.publicKey),
                            msg.publicKey, 0, path, Metric_SM_INCOMING, FALSE)
       IN IF s0.failed THEN s0
          ELSE switchDecrypt(
                  [s0 EXCEPT !.map[s0.idx].value.caSession =
                      CryptoAuth_resetIfTimeout(@, caTimedOut)],
                  msg, path)

\* A variant of incomingFromSwitchIf that takes a frame with a handle
\* whatever the nonce after it.
incomingFromSwitchIfAnyNonce(st, msg, caTimedOut) ==
    IF msg.length = "runt" THEN st
    ELSE
    LET path == Bits_bitReverse64(msg.label)
    IN IF msg.nonceOrHandle = Handle_CTRL THEN ctrlFrame(st, msg)
       ELSE IF msg.length = "short" THEN st
       ELSE IF msg.nonceOrHandle > 3
       THEN LET s0 == sessionForHandle(st, msg.nonceOrHandle)
            IN IF s0.failed \/ s0.idx = 0 THEN s0
               ELSE switchDecrypt(s0, msg, path)
       ELSE IF ~AddressCalc_validAddress(AddressCalc_addressForPublicKey(msg.publicKey))
       THEN st
       ELSE IF msg.publicKey = OwnKey THEN st
       ELSE
       LET s0 == getSession(st, AddressCalc_addressForPublicKey(msg.publicKey),
                            msg.publicKey, 0, path, Metric_SM_INCOMING, FALSE)
       IN IF s0.failed THEN s0
          ELSE switchDecrypt(
                  [s0 EXCEPT !.map[s0.idx].value.caSession =
                      CryptoAuth_resetIfTimeout(@, caTimedOut)],
                  msg, path)

\* A variant of incomingFromSwitchIf that takes a handshake with this
\* node's own key.
incomingFromSwitchIfFromSelf(st, msg, caTimedOut) ==
    IF msg.length = "runt" THEN st
    ELSE
    LET path == Bits_bitReverse64(msg.label)
    IN IF msg.nonceOrHandle = Handle_CTRL THEN ctrlFrame(st, msg)
       ELSE IF msg.length = "short" THEN st
       ELSE IF msg.nonceOrHandle > 3
       THEN LET s0 == sessionForHandle(st, msg.nonceOrHandle)
            IN IF s0.failed \/ s0.idx = 0 THEN s0
               ELSE IF msg.nonce < 4 THEN s0
               ELSE switchDecrypt(s0, msg, path)
       ELSE IF ~AddressCalc_validAddress(AddressCalc_addressForPublicKey(msg.publicKey))
       THEN st
       ELSE
       LET s0 == getSession(st, AddressCalc_addressForPublicKey(msg.publicKey),
                            msg.publicKey, 0, path, Metric_SM_INCOMING, FALSE)
       IN IF s0.failed THEN s0
          ELSE switchDecrypt(
                  [s0 EXCEPT !.map[s0.idx].value.caSession =
                      CryptoAuth_resetIfTimeout(@, caTimedOut)],
                  msg, path)

\* A variant of incomingFromSwitchIf that looks whether a handshake can be
\* decrypted before it makes or updates the session, and answers one that
\* cannot without touching the table.
incomingFromSwitchIfDecryptingFirst(st, msg, caTimedOut) ==
    IF msg.length = "runt" THEN st
    ELSE
    LET path == Bits_bitReverse64(msg.label)
    IN IF msg.nonceOrHandle = Handle_CTRL THEN ctrlFrame(st, msg)
       ELSE IF msg.length = "short" THEN st
       ELSE IF msg.nonceOrHandle > 3
       THEN LET s0 == sessionForHandle(st, msg.nonceOrHandle)
            IN IF s0.failed \/ s0.idx = 0 THEN s0
               ELSE IF msg.nonce < 4 THEN s0
               ELSE switchDecrypt(s0, msg, path)
       ELSE IF ~AddressCalc_validAddress(AddressCalc_addressForPublicKey(msg.publicKey))
       THEN st
       ELSE IF msg.publicKey = OwnKey THEN st
       ELSE
       LET i == Map_indexForKey(st.map, AddressCalc_addressForPublicKey(msg.publicKey))
           ca == IF i = 0 THEN CryptoAuth_newSession(msg.publicKey)
                 ELSE CryptoAuth_resetIfTimeout(st.map[i].value.caSession, caTimedOut)
           d == CryptoAuth_decrypt(ca, msg.nonceOrHandle, msg.publicKey, msg.authentic)
       IN IF d.ret # 0
          THEN failedDecrypt(st, path, d.ret, CryptoAuth_getState(ca), msg.nonceOrHandle)
          ELSE
          LET s0 == getSession(st, AddressCalc_addressForPublicKey(msg.publicKey),
                               msg.publicKey, 0, path, Metric_SM_INCOMING, FALSE)
          IN IF s0.failed THEN s0
             ELSE switchDecrypt(
                     [s0 EXCEPT !.map[s0.idx].value.caSession =
                         CryptoAuth_resetIfTimeout(@, caTimedOut)],
                     msg, path)

\* incomingFromSwitchIf.  msg.length is "runt" (shorter than the switch
\* header and a handle), "short" (no room for the crypto header the nonce
\* asks for) or "ok".
incomingFromSwitchIf(st, msg, caTimedOut) ==
    IF msg.length = "runt" THEN st
    ELSE
    LET path == Bits_bitReverse64(msg.label)
    IN IF msg.nonceOrHandle = Handle_CTRL THEN ctrlFrame(st, msg)
       ELSE IF msg.length = "short" THEN st
       ELSE IF msg.nonceOrHandle > 3
       THEN LET s0 == sessionForHandle(st, msg.nonceOrHandle)
            IN IF s0.failed \/ s0.idx = 0 THEN s0
               ELSE IF msg.nonce < 4 THEN s0
               ELSE switchDecrypt(s0, msg, path)
       ELSE IF ~AddressCalc_validAddress(AddressCalc_addressForPublicKey(msg.publicKey))
       THEN st
       ELSE IF msg.publicKey = OwnKey THEN st
       ELSE
       LET s0 == getSession(st, AddressCalc_addressForPublicKey(msg.publicKey),
                            msg.publicKey, 0, path, Metric_SM_INCOMING, FALSE)
       IN IF s0.failed THEN s0
          ELSE switchDecrypt(
                  [s0 EXCEPT !.map[s0.idx].value.caSession =
                      CryptoAuth_resetIfTimeout(@, caTimedOut)],
                  msg, path)

\* ------------------------------------------------------------ events

\* sessions: the answer to a SESSIONS event.
RECURSIVE sessionsFrom(_, _)
sessionsFrom(st, i) ==
    IF i > Len(st.map) THEN st
    ELSE sessionsFrom(
            sendSession(st, st.map[i].value, st.map[i].value.sendSwitchLabel, "SESSION"),
            i + 1)

sessions(st) == sessionsFrom(st, 1)

\* A variant of incomingNode that sends what is buffered whatever the
\* state of the session.
incomingNodeFlushing(st, node, caTimedOut) ==
    LET index == Map_indexForKey(st.buf, node.ip6)
        s0 == sessionForIp6(st, node.ip6)
    IN IF s0.failed THEN s0
       ELSE IF s0.idx = 0 /\ (index = 0 \/ node.metric = Metric_DEAD_LINK) THEN s0
       ELSE
       LET s1 == getSession(s0, node.ip6, node.publicKey, node.version, node.path,
                            node.metric, FALSE)
       IN IF s1.failed THEN s1
          ELSE
          LET sess == s1.map[s1.idx].value
          IN IF index > 0
             THEN LET bm == s1.buf[index].value
                      s2 == readyToSend(s1, bm.msg, s1.idx, caTimedOut)
                  IN Emit([s2 EXCEPT !.buf = Map_remove(s2.buf, index)],
                          [if |-> "free", key |-> node.ip6, msg |-> bm])
             ELSE IF CryptoAuth_getState(sess.caSession) < CryptoAuth_State_RECEIVED_KEY
             THEN unsetupSession(s1, sess)
             ELSE s1

\* incomingFromEventIf, for a NODE event.
incomingNode(st, node, caTimedOut) ==
    LET index == Map_indexForKey(st.buf, node.ip6)
        s0 == sessionForIp6(st, node.ip6)
    IN IF s0.failed THEN s0
       ELSE IF s0.idx = 0 /\ (index = 0 \/ node.metric = Metric_DEAD_LINK) THEN s0
       ELSE
       LET s1 == getSession(s0, node.ip6, node.publicKey, node.version, node.path,
                            node.metric, FALSE)
       IN IF s1.failed THEN s1
          ELSE
          LET sess == s1.map[s1.idx].value
          IN IF index > 0
                /\ CryptoAuth_getState(sess.caSession) >= CryptoAuth_State_RECEIVED_KEY
             THEN LET bm == s1.buf[index].value
                      s2 == readyToSend(s1, bm.msg, s1.idx, caTimedOut)
                  IN Emit([s2 EXCEPT !.buf = Map_remove(s2.buf, index)],
                          [if |-> "free", key |-> node.ip6, msg |-> bm])
             ELSE IF CryptoAuth_getState(sess.caSession) < CryptoAuth_State_RECEIVED_KEY
             THEN unsetupSession(s1, sess)
             ELSE s1

\* incomingFromEventIf
incomingFromEventIf(st, ev, caTimedOut) ==
    IF ev.ev = "SESSIONS" THEN sessions(st)
    ELSE IF ev.ev # "NODE" THEN Fail(st)
    ELSE incomingNode(st, ev, caTimedOut)

\* ------------------------------------------------------------ inputs

\* Frames from the inside interface: a route header and a data header.
InsideFramesOf(ips, keys, versions, labels, pathfinders, contentTypes) ==
    [ip6 : ips, publicKey : keys, version : versions, label : labels,
     pathfinder : pathfinders, ctrl : {FALSE}, contentType : contentTypes]

\* Control frames from the inside interface.
InsideCtrlFrames ==
    [ip6 : {ZeroIp, 1}, publicKey : {ZeroKey}, version : {0}, label : {1},
     pathfinder : {FALSE}, ctrl : {TRUE}, contentType : {"CTRL"}]

\* The handles a frame from the switch may carry: every handle the table
\* ever gives, and one it never gives.
SwitchHandles ==
    {firstHandle + slot : slot \in 0..(MaxSlots - 1)} \cup {MIN_FIRST_HANDLE + 1}

\* Frames from the switch that end before the manager reads a session from
\* them: a runt, a control frame, a frame too short for its crypto header.
SwitchOddFrames ==
    [length : {"runt"}, label : {Bits_bitReverse64(1)}, nonceOrHandle : {0},
     nonce : {0}, publicKey : {ZeroKey}, authentic : {FALSE},
     sendHandle : {0}, contentType : {"DATA"}]
    \cup
    [length : {"ok"}, label : {Bits_bitReverse64(1)}, nonceOrHandle : {Handle_CTRL},
     nonce : {0}, publicKey : {ZeroKey}, authentic : {FALSE},
     sendHandle : {0}, contentType : {"CTRL"}]
    \cup
    [length : {"short"}, label : {Bits_bitReverse64(1)}, nonceOrHandle : {0, MIN_FIRST_HANDLE},
     nonce : {0}, publicKey : {ZeroKey}, authentic : {FALSE},
     sendHandle : {0}, contentType : {"DATA"}]

\* Frames from the switch that carry a handle and then a nonce.  label is
\* the label on the wire.
SwitchRunFramesOf(labels, nonces, contentTypes) ==
    [length : {"ok"}, label : {Bits_bitReverse64(l) : l \in labels},
     nonceOrHandle : SwitchHandles, nonce : nonces, publicKey : {ZeroKey},
     authentic : BOOLEAN, sendHandle : {0}, contentType : contentTypes]

\* Handshake frames from the switch: a nonce and a crypto header with the
\* sender's key; the payload starts with the handle to send to.
SwitchSetupFramesOf(labels, nonces, keys, contentTypes) ==
    [length : {"ok"}, label : {Bits_bitReverse64(l) : l \in labels},
     nonceOrHandle : nonces, nonce : {0}, publicKey : keys,
     authentic : BOOLEAN, sendHandle : {8}, contentType : contentTypes]

\* NODE events from the pathfinder, decoded.
NodeEventsOf(ips, keys, versions, paths, metrics) ==
    [ev : {"NODE"}, ip6 : ips, publicKey : keys, version : versions,
     path : paths, metric : metrics]

\* ------------------------------------------------------------ the pathfinder
\* dht/Pathfinder.c. The pathfinder is a record [state, failed, out]: out is
\* what the handler called of the DHT's modules and what it sent to the
\* event interface, in order, and failed is set by an assertion. An event
\* is [ev, length, ip6, publicKey, path, version, metric], length being
\* the bytes after the event's kind. What the node store knows and what the
\* DHT's modules make of a message is the input dht.

\* wire/PFChan.h: ip6, public key, path, metric and version of a node.
PFChan_Node_SIZE == 16 + 32 + 8 + 4 + 4

\* wire/PFChan.h: version, pathfinder id and public key.
PFChan_Core_Connect_SIZE == 4 + 4 + 32

\* What triggerSearch pushes after the event's kind and the pathfinder's
\* id: the target, a zero word and the version.
SearchReq_SIZE == 16 + 4 + 4

PfCall(pf, do, ip6, path) ==
    [pf EXCEPT !.out = Append(pf.out, [do |-> do, ip6 |-> ip6, path |-> path])]

\* A failed assertion of the pathfinder.
PfFail(pf, what) ==
    [PfCall(pf, what, 0, 0) EXCEPT !.failed = TRUE]

PfSend(pf, ev, ip6, path) ==
    PfCall(pf, ev, ip6, path)

\* addressForNode's assertion: the event is one PFChan_Node and no more.
IsNode(msg) == msg.length = PFChan_Node_SIZE

\* connected
connected(pf, msg) ==
    IF msg.length # PFChan_Core_Connect_SIZE
    THEN PfFail(pf, "Assert_true(!msg->length)")
    ELSE [PfCall(pf, "connected", 0, 1)
             EXCEPT !.state = Pathfinder_pvt_state_RUNNING]

\* A variant of switchErr that reads the address of the link's child after
\* the link is reported broken.
switchErrReadingAfter(pf, msg, dht) ==
    LET p1 == PfCall(pf, "NodeStore_brokenLink", 0, msg.path)
    IN IF dht.link
       THEN PfCall(p1, "SearchRunner_search", dht.childAfter, 0)
       ELSE p1

\* switchErr: the address of the link's child is copied before the link
\* is reported broken.
switchErr(pf, msg, dht) ==
    LET p1 == PfCall(pf, "NodeStore_brokenLink", 0, msg.path)
    IN IF dht.link
       THEN PfCall(p1, "SearchRunner_search", dht.child, 0)
       ELSE p1

\* searchReq
searchReq(pf, msg) ==
    IF msg.length # 16
    THEN PfFail(pf, "Assert_true(!msg->length)")
    ELSE PfCall(pf, "SearchRunner_search", msg.ip6, 0)

\* peer
peer(pf, msg, dht) ==
    IF ~IsNode(msg) THEN PfFail(pf, "Assert_true(!msg->length)")
    ELSE IF dht.link /\ dht.direct THEN pf
    ELSE PfCall(pf, "Router_sendGetPeers", msg.ip6, msg.path)

\* peerGone
peerGone(pf, msg) ==
    IF ~IsNode(msg) THEN PfFail(pf, "Assert_true(!msg->length)")
    ELSE PfCall(pf, "NodeStore_disconnectedPeer", 0, msg.path)

\* session
session(pf, msg, dht) ==
    IF ~IsNode(msg) THEN PfFail(pf, "Assert_true(!msg->length)")
    ELSE IF dht.node
    THEN PfCall(pf, "NodeStore_pinNode", msg.ip6, 0)
    ELSE PfCall(pf, "SearchRunner_search", msg.ip6, 0)

\* sessionEnded
sessionEnded(pf, msg, dht) ==
    IF ~IsNode(msg) THEN PfFail(pf, "Assert_true(!msg->length)")
    ELSE IF dht.node
    THEN PfCall(pf, "NodeStore_unpinNode", msg.ip6, 0)
    ELSE pf

\* discoveredPath
discoveredPath(pf, msg) ==
    IF ~IsNode(msg) THEN PfFail(pf, "Assert_true(!msg->length)")
    ELSE PfCall(pf, "RumorMill_addNode", msg.ip6, msg.path)

\* handlePing
handlePing(pf, msg) ==
    PfSend(pf, "PONG", 0, 0)

\* handlePong
handlePong(pf, msg) == pf

\* A variant of incomingMsg that reports the node whose version the
\* message told when a reply goes back, too.
incomingMsgReportingToo(pf, msg, dht) ==
    LET p1 == PfCall(pf, "DHTModuleRegistry_handleIncoming", msg.ip6, msg.path)
        p2 == IF dht.pleaseRespond
              THEN PfSend(p1, "SENDMSG", msg.ip6, msg.path)
              ELSE p1
    IN IF msg.version = 0 /\ dht.protocolVersion # 0
       THEN PfSend(p2, "NODE", msg.ip6, msg.path)
       ELSE p2

\* incomingMsg: the DHT's modules handle the message; a reply goes back,
\* or else a node whose version the message told is reported (with the
\* metric 0xfffffffe).
incomingMsg(pf, msg, dht) ==
    LET p1 == PfCall(pf, "DHTModuleRegistry_handleIncoming", msg.ip6, msg.path)
    IN IF dht.pleaseRespond
       THEN PfSend(p1, "SENDMSG", msg.ip6, msg.path)
       ELSE IF msg.version = 0 /\ dht.protocolVersion # 0
       THEN PfSend(p1, "NODE", msg.ip6, msg.path)
       ELSE p1

\* A variant of the pathfinder's incomingFromEventIf that looks at the
\* event's kind alone, whatever the state.
Pathfinder_incomingFromEventIfAnyState(pf, msg, dht) ==
    CASE msg.ev = "CONNECT" -> connected(pf, msg)
      [] msg.ev = "SWITCH_ERR" -> switchErr(pf, msg, dht)
      [] msg.ev = "SEARCH_REQ" -> searchReq(pf, msg)
      [] msg.ev = "PEER" -> peer(pf, msg, dht)
      [] msg.ev = "PEER_GONE" -> peerGone(pf, msg)
      [] msg.ev = "SESSION" -> session(pf, msg, dht)
      [] msg.ev = "SESSION_ENDED" -> sessionEnded(pf, msg, dht)
      [] msg.ev = "DISCOVERED_PATH" -> discoveredPath(pf, msg)
      [] msg.ev = "MSG" -> incomingMsg(pf, msg, dht)
      [] msg.ev = "PING" -> handlePing(pf, msg)
      [] msg.ev = "PONG" -> handlePong(pf, msg)
      [] OTHER -> PfFail(pf, "Assert_failure(unexpected event)")

\* The pathfinder's incomingFromEventIf.
Pathfinder_incomingFromEventIf(pf, msg, dht) ==
    IF pf.state = Pathfinder_pvt_state_INITIALIZING
    THEN IF msg.ev # "CONNECT"
         THEN PfFail(pf, "Assert_true(ev == PFChan_Core_CONNECT)")
         ELSE connected(pf, msg)
    ELSE CASE msg.ev = "SWITCH_ERR" -> switchErr(pf, msg, dht)
           [] msg.ev = "SEARCH_REQ" -> searchReq(pf, msg)
           [] msg.ev = "PEER" -> peer(pf, msg, dht)
           [] msg.ev = "PEER_GONE" -> peerGone(pf, msg)
           [] msg.ev = "SESSION" -> session(pf, msg, dht)
           [] msg.ev = "SESSION_ENDED" -> sessionEnded(pf, msg, dht)
           [] msg.ev = "DISCOVERED_PATH" -> discoveredPath(pf, msg)
           [] msg.ev = "MSG" -> incomingMsg(pf, msg, dht)
           [] msg.ev = "PING" -> handlePing(pf, msg)
           [] msg.ev = "PONG" -> handlePong(pf, msg)
           [] OTHER -> PfFail(pf, "Assert_failure(unexpected event)")

\* The pathfinder as a record, for its handlers to work on.
PfState == [state |-> pfState, failed |-> FALSE, out |-> <<>>]

\* An event of the session manager as the pathfinder receives it: the
\* event's kind and what was pushed before the pathfinder's id.
PfEventOf(o) ==
    [ev |-> o.ev,
     length |-> IF o.ev = "SEARCH_REQ" THEN SearchReq_SIZE ELSE PFChan_Node_SIZE,
     ip6 |-> o.ip6, publicKey |-> o.publicKey, path |-> o.path,
     version |-> o.version, metric |-> o.metric]

\* The events among what a handler of the session manager sent, in order.
PfEventsOf(o) ==
    SelectSeq(o, LAMBDA x : x.if = "event")

\* The pathfinder handles the events evs one after the other, until an
\* assertion fails.
RECURSIVE PfHandleAll(_, _, _)
PfHandleAll(pf, evs, dht) ==
    IF evs = <<>> \/ pf.failed THEN pf
    ELSE PfHandleAll(Pathfinder_incomingFromEventIf(pf, PfEventOf(Head(evs)), dht),
                     Tail(evs), dht)

\* What the node store and the DHT's modules answer. child is the address
\* of the child of the link at NodeStore_linkForPath; childAfter is what a
\* read of link->child after NodeStore_brokenLink gives, the node being
\* freed or not: any address.
DhtAnswers ==
    [link : BOOLEAN, direct : BOOLEAN, child : {1}, childAfter : {1, 2},
     node : BOOLEAN, pleaseRespond : BOOLEAN, protocolVersion : Versions]

\* The kinds of event the core sends to a pathfinder (wire/PFChan.h).
PFChan_Core ==
    {"CONNECT", "SWITCH_ERR", "SEARCH_REQ", "PEER", "PEER_GONE", "SESSION",
     "SESSION_ENDED", "DISCOVERED_PATH", "MSG", "PING", "PONG",
     "UNSETUP_SESSION"}

\* The bytes after the kind of an event as the core builds it, for the
\* kinds whose handler looks at the length.
PfLengthOf(ev) ==
    CASE ev = "CONNECT" -> PFChan_Core_Connect_SIZE
      [] ev = "SEARCH_REQ" -> SearchReq_SIZE
      [] ev \in {"SWITCH_ERR", "MSG", "PING", "PONG"} -> 0
      [] OTHER -> PFChan_Node_SIZE

\* Events of the kinds evs about the peer with address 1.
CoreEventsOf(evs, versions) ==
    {[ev |-> ev, length |-> PfLengthOf(ev), ip6 |-> 1, publicKey |-> 11,
      path |-> 1, version |-> v, metric |-> Metric_PF] :
        ev \in evs, v \in versions}

\* ------------------------------------------------------------ actions

EventsOf(o, ev) ==
    {o[i].sess : i \in {j \in 1..Len(o) : o[j].if = "event" /\ o[j].ev = ev}}

\* The handler's result r becomes the state; a failed assertion ends the run.
Becomes(r) ==
    /\ ~failed
    /\ out = <<>>
    /\ r.next <= MaxSlots
    /\ IF r.failed
       THEN /\ failed' = TRUE
            /\ out' = <<>>
            /\ UNCHANGED <<ifaceMap, nextHandle, bufMap, announced, ended, latched>>
       ELSE /\ failed' = FALSE
            /\ ifaceMap' = r.map
            /\ nextHandle' = r.next
            /\ bufMap' = r.buf
            /\ out' = r.out
            /\ announced' = announced \cup EventsOf(r.out, "SESSION")
            /\ ended' = ended \cup EventsOf(r.out, "SESSION_ENDED")
            /\ latched' = latched \cup
                   {r.map[i].value.receiveHandle :
                       i \in {j \in 1..Len(r.map) : r.map[j].value.foundKey}}
    /\ UNCHANGED <<firstHandle, now, pfState, pfOut>>

InsideIf(frames, timeouts) ==
    \E msg \in frames, caTimedOut \in timeouts :
        Becomes(incomingFromInsideIf(State, msg, caTimedOut))

SwitchIf(frames, timeouts) ==
    \E msg \in frames, caTimedOut \in timeouts :
        Becomes(incomingFromSwitchIf(State, msg, caTimedOut))

EventIf(events, timeouts) ==
    \E ev \in events, caTimedOut \in timeouts :
        Becomes(incomingFromEventIf(State, ev, caTimedOut))

Periodically ==
    Becomes(periodically(State))

\* The handler has returned to the event loop: what it sent is with the
\* interfaces' other ends.
Idle ==
    /\ out # <<>>
    /\ out' = <<>>
    /\ UNCHANGED <<firstHandle, ifaceMap, nextHandle, bufMap, now, failed,
                   announced, ended, latched, pfState, pfOut>>

\* The clock moves on between two handlers.
Tick ==
    /\ ~failed
    /\ out = <<>>
    /\ now < StartTime + MaxElapsed
    /\ now' = now + 1
    /\ UNCHANGED <<firstHandle, ifaceMap, nextHandle, bufMap, failed, out,
                   announced, ended, latched, pfState, pfOut>>

\* The pathfinder's result p becomes its state; a failed assertion of the
\* pathfinder ends the process as one of the session manager does.
PfBecomes(p) ==
    /\ pfState' = p.state
    /\ pfOut' = p.out
    /\ failed' = p.failed
    /\ out' = <<>>
    /\ UNCHANGED <<firstHandle, ifaceMap, nextHandle, bufMap, now,
                   announced, ended, latched>>

\* The events the session manager's handler sent reach the pathfinder,
\* and the handler returns.
Deliver ==
    /\ out # <<>>
    /\ \E dht \in DhtAnswers :
          PfBecomes(PfHandleAll(PfState, PfEventsOf(out), dht))

\* An event from the rest of the core reaches the pathfinder.
CoreEvent(events) ==
    /\ ~failed
    /\ out = <<>>
    /\ \E msg \in events, dht \in DhtAnswers :
          PfBecomes(Pathfinder_incomingFromEventIf(PfState, msg, dht))

\* SessionManager_new: the first handle, from the random number drawn.
firstHandleFor(random) ==
    (random % (MAX_FIRST_HANDLE - MIN_FIRST_HANDLE)) + MIN_FIRST_HANDLE

\* SessionManager_new
InitOf(randoms) ==
    /\ firstHandle \in {firstHandleFor(r) : r \in randoms}
    /\ ifaceMap = <<>>
    /\ nextHandle = 0
    /\ bufMap = <<>>
    /\ now = StartTime
    /\ failed = FALSE
    /\ out = <<>>
    /\ announced = {}
    /\ ended = {}
    /\ latched = {}
    /\ pfState = Pathfinder_pvt_state_INITIALIZING
    /\ pfOut = <<>>

\* ------------------------------------------------------------ one peer
\* One destination, with everything that can happen to its session and to
\* the message buffered for it.

InsideFrames ==
    InsideFramesOf({1}, {11}, {1}, {1}, {FALSE}, ContentTypes)
    \cup InsideFramesOf({1}, {ZeroKey}, {0}, {0}, {FALSE}, {"DATA"})
    \cup InsideFramesOf({1}, {12}, {1}, {1}, {FALSE}, {"DATA"})
    \cup InsideCtrlFrames

SwitchFrames ==
    SwitchOddFrames
    \cup SwitchRunFramesOf({1}, {4}, {"DATA"})
    \cup SwitchSetupFramesOf({1}, {0, 2}, {11}, {"DATA"})
    \cup SwitchSetupFramesOf({1}, {0}, {OwnKey, NonFcKey}, {"DATA"})

PathfinderEvents ==
    NodeEventsOf({1}, {ZeroKey, 11, 12}, {1}, {1}, {Metric_PF})
    \cup {[ev |-> "SESSIONS"]}

Init == InitOf({0})

Next ==
    \/ InsideIf(InsideFrames, {FALSE})
    \/ SwitchIf(SwitchFrames, {FALSE})
    \/ EventIf(PathfinderEvents, {FALSE})
    \/ Periodically
    \/ Idle
    \/ Tick

Spec == Init /\ [][Next]_vars

\* ------------------------------------------------------------ the table
\* Two peers whose sessions come and go, under each first handle.

TableInsideFrames ==
    InsideFramesOf({2}, {12}, {1}, {1}, {TRUE}, {"DATA"})

TableSwitchFrames ==
    SwitchRunFramesOf({1}, {4}, {"DATA"})
    \cup SwitchSetupFramesOf({1}, {0}, {11, 12}, {"DATA"})

TablePathfinderEvents ==
    {[ev |-> "SESSIONS"]}

InitTable == InitOf(RandomValues)

NextTable ==
    \/ InsideIf(TableInsideFrames, {FALSE})
    \/ SwitchIf(TableSwitchFrames, {FALSE})
    \/ EventIf(TablePathfinderEvents, {FALSE})
    \/ Periodically
    \/ Idle
    \/ Tick

SpecTable == InitTable /\ [][NextTable]_vars

\* ------------------------------------------------------------ the buffer
\* Three destinations without a session, and messages waiting for them.

BufferInsideFrames ==
    InsideFramesOf(PeerIps, {ZeroKey}, {0, 1}, {0}, {FALSE}, {"DATA"})

BufferPathfinderEvents ==
    NodeEventsOf({1}, {11}, {1}, {1}, {Metric_PF})

InitBuffer == InitOf({0})

NextBuffer ==
    \/ InsideIf(BufferInsideFrames, {FALSE})
    \/ EventIf(BufferPathfinderEvents, {FALSE})
    \/ Periodically
    \/ Idle
    \/ Tick

SpecBuffer == InitBuffer /\ [][NextBuffer]_vars

\* ------------------------------------------------------------ the sweep
\* Messages for three destinations that the pathfinder does not find, with
\* the timer and the clock going on: the interval timer set in
\* SessionManager_new calls periodically again and again, time passes, and
\* every handler returns.

InitSweep == InitOf({0})

NextSweep ==
    \/ InsideIf(BufferInsideFrames, {FALSE})
    \/ Periodically
    \/ Idle
    \/ Tick

SpecSweep ==
    /\ InitSweep /\ [][NextSweep]_vars
    /\ SF_vars(Periodically)
    /\ SF_vars(Tick)
    /\ WF_vars(Idle)

\* ------------------------------------------------------------ the path
\* One peer whose session is made from the inside, by a handshake that
\* verifies or by the pathfinder, and whose path the pathfinder then
\* reports as found or as broken.

PathInsideFrames ==
    InsideFramesOf({1}, {11}, {1}, {1}, {FALSE}, {"DATA"})
    \cup InsideFramesOf({1}, {ZeroKey}, {0}, {0}, {FALSE}, {"DATA"})

PathSwitchFrames ==
    {msg \in SwitchSetupFramesOf({1}, {0}, {11}, {"DATA"}) : msg.authentic}

PathPathfinderEvents ==
    NodeEventsOf({1}, {11}, Versions, {1, 2}, {Metric_PF, Metric_DEAD_LINK})

InitPath == InitOf({0})

NextPath ==
    \/ InsideIf(PathInsideFrames, {FALSE})
    \/ SwitchIf(PathSwitchFrames, {FALSE})
    \/ EventIf(PathPathfinderEvents, {FALSE})
    \/ Periodically
    \/ Idle
    \/ Tick

SpecPath == InitPath /\ [][NextPath]_vars

\* ------------------------------------------------------------ the flush
\* One peer for which a message waits while its session is set up, within
\* one interval of the timer: the session is made from the inside, with a
\* label or without one, the handshake goes on over the switch, and the
\* pathfinder reports the peer as found or its link as dead, the crypto
\* session timed out at that moment or not.

FlushInsideFrames ==
    InsideFramesOf({1}, {11}, {1}, {0, 1}, {FALSE}, ContentTypes)
    \cup InsideFramesOf({1}, {ZeroKey}, {0}, {0}, {FALSE}, {"DATA"})

FlushSwitchFrames ==
    {msg \in SwitchSetupFramesOf({1}, {0, 2}, {11}, {"DATA"})
              \cup SwitchRunFramesOf({1}, {4}, {"DATA"}) : msg.authentic}

FlushPathfinderEvents ==
    NodeEventsOf({1}, {11}, {1}, {1}, {Metric_PF, Metric_DEAD_LINK})

InitFlush == InitOf({0})

NextFlush ==
    \/ InsideIf(FlushInsideFrames, {FALSE})
    \/ SwitchIf(FlushSwitchFrames, {FALSE})
    \/ EventIf(FlushPathfinderEvents, BOOLEAN)
    \/ Idle

SpecFlush == InitFlush /\ [][NextFlush]_vars

\* ------------------------------------------------------------ the tick
\* Two peers under the interval timer: the session of the first is made
\* from the inside and is maintained, that of the second is made on the
\* pathfinder's word, for a message that waits, and is not; the first may
\* complete its handshake; both time out and are made again.

TickInsideFrames ==
    InsideFramesOf({1}, {11}, {1}, {0}, {FALSE}, {"DATA"})
    \cup InsideFramesOf({1}, {11}, {1}, {1}, {FALSE}, {"CJDHT"})
    \cup InsideFramesOf({2}, {ZeroKey}, {0}, {0}, {FALSE}, {"DATA"})

TickSwitchFrames ==
    {msg \in SwitchSetupFramesOf({1}, {2}, {11}, {"DATA"}) : msg.authentic}

TickPathfinderEvents ==
    NodeEventsOf({2}, {12}, {1}, {1}, {Metric_PF})

InitTick == InitOf({0})

NextTick ==
    \/ InsideIf(TickInsideFrames, {FALSE})
    \/ SwitchIf(TickSwitchFrames, {FALSE})
    \/ EventIf(TickPathfinderEvents, {FALSE})
    \/ Periodically
    \/ Idle
    \/ Tick

SpecTick == InitTick /\ [][NextTick]_vars

\* ------------------------------------------------------------ the traffic
\* One peer whose session is made from the inside and set up by the peer's
\* key packet, with payloads and DHT messages going both ways while the
\* clock moves on and the timer ends the session that has heard nothing.

TrafficInsideFrames ==
    InsideFramesOf({1}, {11}, {1}, {1}, {FALSE}, ContentTypes)

TrafficSwitchFrames ==
    {msg \in SwitchSetupFramesOf({1}, {2}, {11}, ContentTypes)
              \cup SwitchRunFramesOf({1}, {4}, ContentTypes) :
        msg.authentic /\ msg.nonceOrHandle \in {2, firstHandle}}

InitTraffic == InitOf({0})

NextTraffic ==
    \/ InsideIf(TrafficInsideFrames, {FALSE})
    \/ SwitchIf(TrafficSwitchFrames, {FALSE})
    \/ Periodically
    \/ Idle
    \/ Tick

SpecTraffic == InitTraffic /\ [][NextTraffic]_vars

\* ------------------------------------------------------------ the events
\* The session manager and the pathfinder on one event interface. The
\* event emitter between them decides which pathfinder an event goes to:
\* what a handler of the session manager emits is handled by this
\* pathfinder (Deliver) or by none (Idle). The rest of the core sends its
\* events too, the answer to the pathfinder's CONNECT among them.

EventInsideFrames ==
    InsideFramesOf({1}, {11}, {1}, {1}, {FALSE}, {"DATA"})
    \cup InsideFramesOf({1}, {ZeroKey}, {0}, {0}, {FALSE}, {"DATA"})

EventPathfinderEvents ==
    NodeEventsOf({1}, {11}, {1}, {1}, {Metric_PF})

EventCoreEvents ==
    CoreEventsOf({"CONNECT", "SWITCH_ERR", "PEER", "PEER_GONE", "MSG",
                  "PING", "PONG"}, Versions)

InitEvent == InitOf({0})

NextEvent ==
    \/ InsideIf(EventInsideFrames, {FALSE})
    \/ EventIf(EventPathfinderEvents, {FALSE})
    \/ Periodically
    \/ Deliver
    \/ Idle
    \/ CoreEvent(EventCoreEvents)
    \/ Tick

SpecEvent == InitEvent /\ [][NextEvent]_vars

\* ------------------------------------------------------------ properties

\* The event loop is idle: a handler can run.
Ready == ~failed /\ out = <<>>

\* The receive handles of the live sessions.
LiveHandles == {ifaceMap[i].value.receiveHandle : i \in 1..Len(ifaceMap)}

\* C1: the live sessions have pairwise distinct receive handles, each at
\* least firstHandle and so above the nonces 0..3, and firstHandle lies in
\* [MIN_FIRST_HANDLE, MAX_FIRST_HANDLE).
C1_HandlesDistinctAndAboveNonces ==
    /\ firstHandle >= MIN_FIRST_HANDLE
    /\ firstHandle < MAX_FIRST_HANDLE
    /\ \A i \in 1..Len(ifaceMap) :
          /\ ifaceMap[i].value.receiveHandle >= firstHandle
          /\ ifaceMap[i].value.receiveHandle > 3
    /\ \A i, j \in 1..Len(ifaceMap) :
          i # j => ifaceMap[i].value.receiveHandle # ifaceMap[j].value.receiveHandle

\* Two sessions live, one of them made after another had ended, under the
\* largest first handle.
C1_Witness ==
    /\ Len(ifaceMap) = 2
    /\ ended # {}
    /\ firstHandle = MAX_FIRST_HANDLE - 1
    /\ ifaceMap[2].value.receiveHandle = firstHandle + 2

\* C2: for every live session, the lookup by the address it is stored under
\* and the lookup by its receive handle both return that session.
C2_LookupsAgree ==
    \A i \in 1..Len(ifaceMap) :
        LET byIp6 == sessionForIp6(State, ifaceMap[i].key)
            byHandle == sessionForHandle(State, ifaceMap[i].value.receiveHandle)
        IN /\ ~byIp6.failed /\ byIp6.idx = i
           /\ ~byHandle.failed /\ byHandle.idx = i

\* A session that moved down in the table when the one before it timed out,
\* and a session created after that.
C2_Witness ==
    /\ Len(ifaceMap) = 2
    /\ ended # {}
    /\ ifaceMap[1].handle = 1
    /\ ifaceMap[2].handle = 2

\* The frames that C3 and C4 hand to needsLookup.
LookupFrames ==
    InsideFramesOf(PeerIps, {ZeroKey, 11}, Versions, {0, 1}, BOOLEAN, {"DATA"})

\* C3: the buffer holds at most one message per address; when a frame needs
\* a lookup and a message waits for its address, the older message is
\* removed and freed first, and then the newer one is stored.
C3_OneBufferedPerIp6 ==
    /\ \A i, j \in 1..Len(bufMap) : i # j => bufMap[i].key # bufMap[j].key
    /\ \A msg \in LookupFrames :
          LET index == Map_indexForKey(bufMap, msg.ip6)
              r == needsLookup(State, msg)
              at == Map_indexForKey(r.buf, msg.ip6)
          IN (Ready /\ index > 0) =>
                /\ Len(r.out) = 2
                /\ r.out[1] = [if |-> "free", key |-> msg.ip6,
                               msg |-> bufMap[index].value]
                /\ r.out[2].if = "event" /\ r.out[2].ev = "SEARCH_REQ"
                /\ at > 0
                /\ r.buf[at].value = [msg |-> msg, timeSentMilliseconds |-> now]
                /\ Cardinality({k \in 1..Len(r.buf) : r.buf[k].key = msg.ip6}) = 1
                /\ Len(r.buf) = Len(bufMap)

\* A newer message took the place of an older one for the same address.
C3_Witness ==
    /\ Len(out) = 2
    /\ out[1].if = "free"
    /\ Map_indexForKey(bufMap, out[1].key) > 0
    /\ bufMap[Map_indexForKey(bufMap, out[1].key)].value.timeSentMilliseconds
          > out[1].msg.timeSentMilliseconds

\* The buffered messages that checkTimedOutBuffers leaves at this time.
FreshBuffered ==
    SelectSeq(bufMap, LAMBDA e : now - e.value.timeSentMilliseconds < BufferTimeout)

\* C4: the buffer never holds more than maxBufferedMessages; a frame for an
\* address without a buffered message that finds the buffer full has the
\* timed-out messages swept first, and is dropped, the buffer unchanged,
\* when the buffer is full after the sweep.
C4_BufferBounded ==
    /\ Len(bufMap) <= maxBufferedMessages
    /\ \A msg \in LookupFrames :
          LET r == needsLookup(State, msg)
          IN (Ready /\ Map_indexForKey(bufMap, msg.ip6) = 0
                /\ Len(bufMap) >= maxBufferedMessages) =>
                IF Len(FreshBuffered) >= maxBufferedMessages
                THEN r.buf = bufMap /\ r.out = <<>> /\ ~r.failed
                ELSE /\ r.buf = Append(FreshBuffered,
                              [key |-> msg.ip6, handle |-> 0,
                               value |-> [msg |-> msg, timeSentMilliseconds |-> now]])
                     /\ Len(r.out) = Len(bufMap) - Len(FreshBuffered) + 1
                     /\ r.out[Len(r.out)].ev = "SEARCH_REQ"

\* A frame for a third address found the buffer full: the sweep freed a
\* message that had timed out, and the frame was stored in its place.
C4_Witness ==
    /\ Len(bufMap) = maxBufferedMessages
    /\ Len(out) = 2
    /\ out[1].if = "free"
    /\ out[2].if = "event" /\ out[2].ev = "SEARCH_REQ"
    /\ out[2].ip6 # out[1].key

\* Whether o is the event ev about the session with receive handle h.
IsEvent(o, ev, h) == o.if = "event" /\ o.ev = ev /\ o.sess = h

\* Every session that has bound its key is stored under the key's address.
FoundKeyBound ==
    \A i \in 1..Len(ifaceMap) :
        ifaceMap[i].value.foundKey =>
            AddressCalc_addressForPublicKey(ifaceMap[i].value.caSession.herPublicKey)
                = ifaceMap[i].key

\* getSession, asked for a session at an address that has none with a key
\* of another address, fails its assertion.
MismatchIsFatal ==
    \A ip6 \in PeerIps, pubKey \in PeerKeys \cup {OwnKey} :
        (Map_indexForKey(ifaceMap, ip6) = 0
            /\ AddressCalc_addressForPublicKey(pubKey) # ip6) =>
        getSession(State, ip6, pubKey, 1, 1, Metric_PF, FALSE).failed

\* C5: a live session with foundKey set is stored under the address of its
\* peer's key; foundKey, once set, stays set while the session lives; a key
\* of another address fails an assertion and is never stored.
C5_FoundKeyLatch ==
    /\ FoundKeyBound
    /\ \A i \in 1..Len(ifaceMap) :
          ifaceMap[i].value.receiveHandle \in latched => ifaceMap[i].value.foundKey
    /\ Ready => MismatchIsFatal

\* A session made for a node whose key the pathfinder did not give, which
\* learned the key from a hello and then bound it.
C5_Witness ==
    \E i \in 1..Len(ifaceMap) :
        /\ ifaceMap[i].value.foundKey
        /\ ifaceMap[i].value.caSession.herPublicKey = 11
        /\ ifaceMap[i].value.caSession.state = CryptoAuth_State_RECEIVED_HELLO
        /\ ifaceMap[i].value.metric = Metric_PF
        /\ ifaceMap[i].value.recvSwitchLabel # 0

\* Whether the entry e of the session table is within its time-out now.
Survives(e) == now - e.value.timeOfKeepAliveIn <= sessionTimeoutMilliseconds

\* The receive handles of the sessions in the table map.
HandlesOf(map) == {map[i].value.receiveHandle : i \in 1..Len(map)}

\* C6: the periodic tick leaves exactly the sessions within their time-out,
\* emits one SESSION_ENDED for each session it removes, and neither lookup
\* finds a removed session; no other handler removes a session.
C6_TickRemovesExactlyTimedOut ==
    LET r == periodically(State)
        kept == SelectSeq(ifaceMap, Survives)
        gone == {i \in 1..Len(ifaceMap) : ~Survives(ifaceMap[i])}
    IN Ready =>
       /\ ~r.failed
       /\ Len(r.map) = Len(kept)
       /\ \A i \in 1..Len(kept) :
             /\ r.map[i].key = kept[i].key
             /\ r.map[i].handle = kept[i].handle
             /\ r.map[i].value.receiveHandle = kept[i].value.receiveHandle
       /\ \A i \in gone :
             /\ Cardinality({k \in 1..Len(r.out) :
                   IsEvent(r.out[k], "SESSION_ENDED",
                           ifaceMap[i].value.receiveHandle)}) = 1
             /\ sessionForHandle(r, ifaceMap[i].value.receiveHandle).idx = 0
             /\ sessionForIp6(r, ifaceMap[i].key).idx = 0
       /\ \A k \in 1..Len(r.out) :
             (r.out[k].if = "event" /\ r.out[k].ev = "SESSION_ENDED") =>
                \E i \in gone : r.out[k].sess = ifaceMap[i].value.receiveHandle
       /\ \A msg \in TableInsideFrames \cup InsideFrames :
             LET q == incomingFromInsideIf(State, msg, FALSE)
             IN q.failed \/ LiveHandles \subseteq HandlesOf(q.map)
       /\ \A msg \in TableSwitchFrames \cup SwitchFrames :
             LET q == incomingFromSwitchIf(State, msg, FALSE)
             IN q.failed \/ LiveHandles \subseteq HandlesOf(q.map)
       /\ \A ev \in PathfinderEvents
                  \cup NodeEventsOf({1, 2}, {11, 12}, {1}, {1}, Metrics) :
             LET q == incomingFromEventIf(State, ev, FALSE)
             IN q.failed \/ LiveHandles \subseteq HandlesOf(q.map)

\* A tick has removed one session and left another.
C6_Witness ==
    /\ Len(ifaceMap) = 1
    /\ \E k \in 1..Len(out) : out[k].if = "event" /\ out[k].ev = "SESSION_ENDED"
    /\ now - ifaceMap[1].value.timeOfKeepAliveIn = sessionTimeoutMilliseconds

\* C7: the lookup by the handle of a destroyed session finds nothing in
\* every later state, and no session made later gets that handle.
C7_HandleNeverReassigned ==
    /\ \A h \in ended :
          /\ h \notin LiveHandles
          /\ sessionForHandle(State, h).idx = 0
          /\ h - firstHandle < nextHandle
    /\ \A h \in LiveHandles : h - firstHandle < nextHandle

\* A session has ended and sessions made after it are live.
C7_Witness ==
    /\ ended # {}
    /\ Len(ifaceMap) = 2
    /\ \E h \in ended : \A g \in LiveHandles : g > h
    /\ out = <<>>

\* C8: SESSION_ENDED is the last event about a session: no handler emits an
\* event about a session that ended before, nor one after the
\* SESSION_ENDED it emits itself.
C8_EndedIsLast ==
    [][\A i \in 1..Len(out') :
          out'[i].if = "event" =>
             /\ out'[i].sess \notin ended
             /\ \A j \in 1..(i - 1) :
                   ~IsEvent(out'[j], "SESSION_ENDED", out'[i].sess)
      ]_vars

\* After a session ended, a session is announced for the same address.
C8_Witness ==
    /\ ended # {}
    /\ \E i \in 1..Len(out) :
          out[i].if = "event" /\ out[i].ev = "SESSION" /\ out[i].sess \notin ended

\* C9: a DISCOVERED_PATH event about a session comes after a SESSION event
\* about that session.
C9_SessionBeforeDiscoveredPath ==
    [][\A i \in 1..Len(out') :
          (out'[i].if = "event" /\ out'[i].ev = "DISCOVERED_PATH") =>
             \/ out'[i].sess \in announced
             \/ \E j \in 1..(i - 1) : IsEvent(out'[j], "SESSION", out'[i].sess)
      ]_vars

\* A handshake from a peer without a session: the session is announced and
\* then its path.
C9_Witness ==
    /\ Len(out) >= 2
    /\ out[1].if = "event" /\ out[1].ev = "SESSION"
    /\ IsEvent(out[2], "DISCOVERED_PATH", out[1].sess)

\* NODE events with the key of their address, a version and a path, about a
\* link that is not dead.
ColdNodeEvents ==
    {node \in NodeEventsOf(PeerIps, PeerKeys, {1}, {1, 2},
                           {Metric_PF, Metric_SM_INCOMING, Metric_SM_SEND}) :
        AddressCalc_addressForPublicKey(node.publicKey) = node.ip6}

\* A message is buffered for the node's address and no session is there.
Cold(node) ==
    /\ Map_indexForKey(ifaceMap, node.ip6) = 0
    /\ Map_indexForKey(bufMap, node.ip6) > 0

\* C10, as stated: a NODE event for an address with a buffered
\* message and no session creates the session, emits SESSION, removes the
\* message from the buffer and sends it as one frame to the switch.
C10_NodeFlushesColdBuffer ==
    \A node \in ColdNodeEvents, caTimedOut \in BOOLEAN :
        LET r == incomingFromEventIf(State, node, caTimedOut)
            at == Map_indexForKey(r.map, node.ip6)
        IN (Ready /\ Cold(node)) =>
              /\ ~r.failed
              /\ at > 0
              /\ \E k \in 1..Len(r.out) :
                    IsEvent(r.out[k], "SESSION", r.map[at].value.receiveHandle)
              /\ Map_indexForKey(r.buf, node.ip6) = 0
              /\ Cardinality({k \in 1..Len(r.out) : r.out[k].if = "switch"}) = 1

\* C10, as the code has it: the session is created in CryptoAuth's first
\* state and announced, the buffered message stays in the buffer, no frame
\* goes to the switch, and UNSETUP_SESSION follows SESSION.
C10_NodeKeepsColdBuffer ==
    \A node \in ColdNodeEvents, caTimedOut \in BOOLEAN :
        LET r == incomingFromEventIf(State, node, caTimedOut)
            at == Map_indexForKey(r.map, node.ip6)
        IN (Ready /\ Cold(node)) =>
              /\ ~r.failed
              /\ at > 0
              /\ r.map[at].value.caSession.state = CryptoAuth_State_INIT
              /\ Len(r.out) = 2
              /\ IsEvent(r.out[1], "SESSION", r.map[at].value.receiveHandle)
              /\ IsEvent(r.out[2], "UNSETUP_SESSION", r.map[at].value.receiveHandle)
              /\ r.buf = bufMap

\* The NODE event has come: the session is new, announced and not set up,
\* and the message still waits.
C10_Witness ==
    /\ Len(out) = 2
    /\ out[1].if = "event" /\ out[1].ev = "SESSION"
    /\ IsEvent(out[2], "UNSETUP_SESSION", out[1].sess)
    /\ Map_indexForKey(bufMap, out[1].ip6) > 0
    /\ Map_indexForKey(ifaceMap, out[1].ip6) > 0
    /\ out[1].publicKey # ZeroKey

\* Frames from the inside for which the manager, having no session, makes
\* none: the route header lacks the key or the version.
ColdFrames ==
    {msg \in InsideFramesOf(PeerIps, {ZeroKey} \cup PeerKeys, Versions, {0, 1},
                            BOOLEAN, ContentTypes) :
        msg.publicKey = ZeroKey \/ msg.version = 0}

\* The events among the outputs o.
EventsIn(o) == {k \in 1..Len(o) : o[k].if = "event"}

\* The frames for the switch among the outputs o.
SwitchFramesIn(o) == {k \in 1..Len(o) : o[k].if = "switch"}

\* Whether the outputs o hold one event, a SEARCH_REQ for ip6.
OneSearchReq(o, ip6) ==
    /\ Cardinality(EventsIn(o)) = 1
    /\ \A k \in EventsIn(o) : o[k].ev = "SEARCH_REQ" /\ o[k].ip6 = ip6

\* Whether r holds msg in its buffer, stored at this time.
BufferedIn(r, msg) ==
    LET at == Map_indexForKey(r.buf, msg.ip6)
    IN at > 0 /\ r.buf[at].value = [msg |-> msg, timeSentMilliseconds |-> now]

\* Whether the buffer has room for a message to ip6 once the message
\* waiting for ip6 is gone and, the buffer being full, the timed-out
\* messages are swept.
RoomFor(ip6) ==
    LET rest == SelectSeq(bufMap, LAMBDA e : e.key # ip6)
        fresh == SelectSeq(rest,
                     LAMBDA e : now - e.value.timeSentMilliseconds < BufferTimeout)
    IN Len(rest) < maxBufferedMessages \/ Len(fresh) < maxBufferedMessages

\* C11, as stated: a frame from the inside that is not a control frame, to
\* an address without a session, with a zero key or a zero version, is
\* buffered, one SEARCH_REQ with the address is emitted, no session is
\* created and nothing goes to the switch.
C11_ColdFrameBuffered ==
    \A msg \in ColdFrames, caTimedOut \in BOOLEAN :
        LET r == incomingFromInsideIf(State, msg, caTimedOut)
        IN (Ready /\ Map_indexForKey(ifaceMap, msg.ip6) = 0) =>
              /\ ~r.failed
              /\ BufferedIn(r, msg)
              /\ OneSearchReq(r.out, msg.ip6)
              /\ r.map = ifaceMap /\ r.next = nextHandle
              /\ SwitchFramesIn(r.out) = {}

\* C11, as the code has it: such a frame with a content type other than
\* CJDHT is buffered and one SEARCH_REQ with its address is emitted when the
\* buffer has room for it; when the buffer stays full after the sweep the
\* frame is dropped and no event is emitted; in both cases no session is
\* created and nothing goes to the switch.  A CJDHT frame fails the
\* assertion of needsLookup.
C11_ColdFrameBufferedIfRoom ==
    \A msg \in ColdFrames, caTimedOut \in BOOLEAN :
        LET r == incomingFromInsideIf(State, msg, caTimedOut)
        IN (Ready /\ Map_indexForKey(ifaceMap, msg.ip6) = 0) =>
              IF msg.contentType = "CJDHT" THEN r.failed
              ELSE /\ ~r.failed
                   /\ r.map = ifaceMap /\ r.next = nextHandle
                   /\ SwitchFramesIn(r.out) = {}
                   /\ IF RoomFor(msg.ip6)
                      THEN BufferedIn(r, msg) /\ OneSearchReq(r.out, msg.ip6)
                      ELSE /\ Map_indexForKey(r.buf, msg.ip6) = 0
                           /\ EventsIn(r.out) = {}
                           /\ r.buf = bufMap

\* The first message for an address without a session waits in the buffer,
\* and the search for the address is the one thing the handler sent.
C11_Witness ==
    /\ Len(out) = 1
    /\ out[1].if = "event" /\ out[1].ev = "SEARCH_REQ"
    /\ Map_indexForKey(ifaceMap, out[1].ip6) = 0
    /\ Map_indexForKey(bufMap, out[1].ip6) > 0
    /\ bufMap[Map_indexForKey(bufMap, out[1].ip6)].value.timeSentMilliseconds = now
    /\ bufMap[Map_indexForKey(bufMap, out[1].ip6)].value.msg.publicKey = ZeroKey

\* The session at index i after getSession is called for its address.
Updated(i, version, label, metric, maintainSession) ==
    getSession(State, ifaceMap[i].key, ifaceMap[i].value.caSession.herPublicKey,
               version, label, metric, maintainSession).map[i].value

\* C12, as stated: an update of a live session by getSession leaves its
\* metric no greater than it was, unless it leaves it DEAD_LINK.
C12_MetricNeverIncreases ==
    Ready =>
    \A i \in 1..Len(ifaceMap), version \in Versions, label \in Labels,
       metric \in Metrics, maintainSession \in BOOLEAN :
        LET was == ifaceMap[i].value.metric
            is == Updated(i, version, label, metric, maintainSession).metric
        IN is <= was \/ is = Metric_DEAD_LINK

\* C12, as the code has it: an update with a metric other than DEAD_LINK
\* leaves the metric no greater than it was; an update with DEAD_LINK
\* leaves it as it was, or DEAD_LINK, or SM_INCOMING, and SM_INCOMING also
\* when the metric was better than that.
C12_MetricIncreasesOnBrokenPathOnly ==
    Ready =>
    \A i \in 1..Len(ifaceMap), version \in Versions, label \in Labels,
       metric \in Metrics, maintainSession \in BOOLEAN :
        LET sess == ifaceMap[i].value
            was == sess.metric
            is == Updated(i, version, label, metric, maintainSession).metric
        IN IF metric # Metric_DEAD_LINK THEN is <= was
           ELSE IF sess.sendSwitchLabel # label THEN is = was
           ELSE IF sess.sendSwitchLabel = sess.recvSwitchLabel
           THEN is = Metric_DEAD_LINK
           ELSE is = Metric_SM_INCOMING

\* The pathfinder made the session with its metric and then reported the
\* path broken, before any frame had come from the peer: the session has
\* no path and its metric is SM_INCOMING.
C12_Witness ==
    \E i \in 1..Len(ifaceMap) :
        /\ ifaceMap[i].value.metric = Metric_SM_INCOMING
        /\ ifaceMap[i].value.sendSwitchLabel = 0
        /\ ifaceMap[i].value.recvSwitchLabel = 0
        /\ ~ifaceMap[i].value.maintainSession

\* Frames from the switch with a handle and a nonce of a session set up.
RunProbes == SwitchRunFramesOf(Labels, {4}, ContentTypes)

\* Whether CryptoAuth refuses the frame msg for the session sess.
DecryptFails(sess, msg) ==
    CryptoAuth_decrypt(sess.caSession, msg.nonce, msg.publicKey, msg.authentic).ret # 0

\* C13: a frame from the switch with the handle of a live session and a
\* nonce of 4 or more that fails decryption is answered by one frame to the
\* switch, with SuppressErrors set and the handle 0xffffffff; nothing goes to
\* the inside, no event is emitted, the session stays in the table and its
\* times and count of bytes received, its send handle and its labels are as
\* they were; the other sessions and the buffer are as they were.
C13_FailedDecryptReply ==
    Ready =>
    \A msg \in RunProbes, caTimedOut \in BOOLEAN :
        LET i == Map_indexForHandle(ifaceMap, msg.nonceOrHandle - firstHandle)
            r == incomingFromSwitchIf(State, msg, caTimedOut)
        IN (i > 0 /\ DecryptFails(ifaceMap[i].value, msg)) =>
              /\ ~r.failed
              /\ Len(r.out) = 1
              /\ r.out[1].if = "switch"
              /\ r.out[1].kind = "failedDecrypt"
              /\ r.out[1].suppressErrors
              /\ r.out[1].outerHandle = Handle_CTRL
              /\ r.out[1].label = Bits_bitReverse64(msg.label)
              /\ r.out[1].caState = CryptoAuth_getState(ifaceMap[i].value.caSession)
              /\ Len(r.map) = Len(ifaceMap)
              /\ \A j \in 1..Len(ifaceMap) : j # i => r.map[j] = ifaceMap[j]
              /\ r.map[i].key = ifaceMap[i].key
              /\ r.map[i].value.receiveHandle = msg.nonceOrHandle
              /\ r.map[i].value.timeOfLastIn = ifaceMap[i].value.timeOfLastIn
              /\ r.map[i].value.timeOfKeepAliveIn = ifaceMap[i].value.timeOfKeepAliveIn
              /\ r.map[i].value.bytesIn = ifaceMap[i].value.bytesIn
              /\ r.map[i].value.sendHandle = ifaceMap[i].value.sendHandle
              /\ r.map[i].value.sendSwitchLabel = ifaceMap[i].value.sendSwitchLabel
              /\ r.map[i].value.recvSwitchLabel = ifaceMap[i].value.recvSwitchLabel
              /\ r.buf = bufMap

\* The reply to a frame that came with the handle of the second of two
\* live sessions, some time after the session had its last frame.
C13_Witness ==
    /\ Len(out) = 1
    /\ out[1].if = "switch" /\ out[1].kind = "failedDecrypt"
    /\ Len(ifaceMap) = 2
    /\ out[1].firstSixteen = ifaceMap[2].value.receiveHandle
    /\ ifaceMap[2].value.timeOfKeepAliveIn < now

\* Frames from the switch too short to hold a handle.
RuntProbes ==
    [length : {"runt"}, label : {Bits_bitReverse64(1)},
     nonceOrHandle : {0} \cup SwitchHandles, nonce : {4}, publicKey : {ZeroKey},
     authentic : {TRUE}, sendHandle : {0}, contentType : {"DATA"}]

\* Frames from the switch with a handle, followed by the nonce of a
\* handshake or by that of a session set up.
HandleProbes == SwitchRunFramesOf({1}, {0, 3, 4}, {"DATA"})

\* Whether the handler's result r is the state as it was, nothing sent.
Dropped(r) ==
    /\ ~r.failed
    /\ r.out = <<>>
    /\ r.map = ifaceMap /\ r.next = nextHandle
    /\ r.buf = bufMap

\* C14, as stated: a runt, a frame with a handle above 3 that no live
\* session has, and a frame with the handle of a live session followed by a
\* nonce below 4 are dropped: nothing is sent, no event is emitted, and the
\* session table, every field of every session and the buffer are
\* unchanged.
C14_BadFrameChangesNothing ==
    Ready =>
    /\ \A msg \in RuntProbes, caTimedOut \in BOOLEAN :
          Dropped(incomingFromSwitchIf(State, msg, caTimedOut))
    /\ \A msg \in HandleProbes, caTimedOut \in BOOLEAN :
          LET i == Map_indexForHandle(ifaceMap, msg.nonceOrHandle - firstHandle)
          IN (i = 0 \/ msg.nonce < 4) =>
                Dropped(incomingFromSwitchIf(State, msg, caTimedOut))

\* C14, as the code has it: such frames are dropped, nothing is sent and no
\* event is emitted; the buffer and the session table are unchanged, but
\* for the foundKey of the session whose handle the frame carries: the
\* lookup by handle sets it when the session has learned its peer's key.
C14_BadFrameSetsFoundKeyAtMost ==
    Ready =>
    /\ \A msg \in RuntProbes, caTimedOut \in BOOLEAN :
          Dropped(incomingFromSwitchIf(State, msg, caTimedOut))
    /\ \A msg \in HandleProbes, caTimedOut \in BOOLEAN :
          LET i == Map_indexForHandle(ifaceMap, msg.nonceOrHandle - firstHandle)
              r == incomingFromSwitchIf(State, msg, caTimedOut)
          IN /\ i = 0 => Dropped(r)
             /\ (i > 0 /\ msg.nonce < 4) =>
                   /\ ~r.failed
                   /\ r.out = <<>>
                   /\ r.buf = bufMap /\ r.next = nextHandle
                   /\ r.map = [ifaceMap EXCEPT ![i].value.foundKey =
                                  @ \/ ifaceMap[i].value.caSession.herPublicKey # ZeroKey]

\* A session made without its peer's key has learned the key from a hello;
\* a frame with its handle and a handshake's nonce is dropped, and the
\* lookup has set foundKey.
C14_Witness ==
    /\ Ready
    /\ \E msg \in HandleProbes :
          LET i == Map_indexForHandle(ifaceMap, msg.nonceOrHandle - firstHandle)
              r == incomingFromSwitchIf(State, msg, FALSE)
          IN /\ i > 0 /\ msg.nonce < 4
             /\ ~ifaceMap[i].value.foundKey
             /\ r.map[i].value.foundKey
             /\ r.out = <<>>

\* Handshakes that claim this node's own key or a key whose address does
\* not start with 0xfc.
BadKeyProbes ==
    SwitchSetupFramesOf({1, 2}, 0..3, {OwnKey, NonFcKey}, ContentTypes)

\* C15: a handshake with this node's own key, or with a key whose address
\* does not start with 0xfc, is dropped before any session is looked up:
\* the session table is as it was, no session made and none updated, no
\* event is emitted and nothing is sent to the switch or to the inside.
C15_BadKeyHandshakeDropped ==
    Ready =>
    \A msg \in BadKeyProbes, caTimedOut \in BOOLEAN :
        Dropped(incomingFromSwitchIf(State, msg, caTimedOut))

\* A handshake with this node's own key comes while a session lives, made
\* without its peer's key and not yet bound to the key it has learned, and
\* a message waits in the buffer: the state stays as it is.
C15_Witness ==
    /\ Ready
    /\ Len(bufMap) = 1
    /\ \E i \in 1..Len(ifaceMap) :
          ~ifaceMap[i].value.foundKey
          /\ ifaceMap[i].value.caSession.herPublicKey # ZeroKey
    /\ \E msg \in BadKeyProbes :
          /\ msg.publicKey = OwnKey
          /\ Dropped(incomingFromSwitchIf(State, msg, FALSE))

\* What each handler makes of the state, for the frames and events that
\* concern the peer of SpecPath: frames from the inside with and without
\* key, version and label, handshakes and frames with a handle from the
\* switch, NODE events of every metric, the SESSIONS event and the tick.
PathResults ==
    {incomingFromInsideIf(State, msg, caTimedOut) :
        msg \in InsideFramesOf({1}, {ZeroKey, 11}, Versions, {0, 1}, BOOLEAN,
                               ContentTypes),
        caTimedOut \in BOOLEAN}
    \cup
    {incomingFromSwitchIf(State, msg, caTimedOut) :
        msg \in SwitchSetupFramesOf({1, 2}, {0, 2}, {11}, {"DATA"})
                \cup SwitchRunFramesOf({1}, {4}, {"DATA"}),
        caTimedOut \in BOOLEAN}
    \cup
    {incomingFromEventIf(State, ev, caTimedOut) :
        ev \in NodeEventsOf({1}, {ZeroKey, 11}, Versions, Labels, Metrics)
               \cup {[ev |-> "SESSIONS"]},
        caTimedOut \in BOOLEAN}
    \cup
    {periodically(State)}

\* Whether every session that lives before and after the handler, whose
\* result is r, and that satisfies Has before, satisfies it after.
Keeps(r, Has(_)) ==
    \A i \in 1..Len(ifaceMap), j \in 1..Len(r.map) :
        (r.map[j].value.receiveHandle = ifaceMap[i].value.receiveHandle
            /\ Has(ifaceMap[i].value)) => Has(r.map[j].value)

\* C18: the version of a live session, once it is not zero, is not zero
\* after any handler: an update by getSession, a frame from the inside, a
\* frame from the switch, a tick.
C18_VersionStaysNonZero ==
    Ready =>
    \A r \in PathResults :
        r.failed \/ Keeps(r, LAMBDA sess : sess.version # 0)

\* A session made from the inside with a version, then updated by a
\* handshake, which gives getSession the version zero.
C18_Witness ==
    \E i \in 1..Len(ifaceMap) :
        /\ ifaceMap[i].value.version # 0
        /\ ifaceMap[i].value.maintainSession
        /\ ifaceMap[i].value.metric = Metric_SM_INCOMING
        /\ ifaceMap[i].value.recvSwitchLabel # 0

\* C19: maintainSession of a live session, once true, is true after any
\* handler, as long as the session is in the table.
C19_MaintainSessionStays ==
    Ready =>
    \A r \in PathResults :
        r.failed \/ Keeps(r, LAMBDA sess : sess.maintainSession)

\* A session made from the inside, which the manager maintains, then
\* updated by a NODE event, which gives getSession maintainSession false.
C19_Witness ==
    \E i \in 1..Len(ifaceMap) :
        /\ ifaceMap[i].value.maintainSession
        /\ ifaceMap[i].value.metric = Metric_PF
        /\ ifaceMap[i].value.sendSwitchLabel = 2

\* Whether a message stored at time t waits for ip6.
BufferedAt(ip6, t) ==
    \E k \in 1..Len(bufMap) :
        bufMap[k].key = ip6 /\ bufMap[k].value.timeSentMilliseconds = t

\* The times a message can be stored at and still reach its time-out
\* within the run.
StoreTimes == StartTime..(StartTime + MaxElapsed - BufferTimeout)

\* Whether a message waits whose time-out falls within the run.
EarlyBuffered ==
    \E ip6 \in PeerIps, t \in StoreTimes : BufferedAt(ip6, t)

\* C20: with the timer firing and time passing, every message stored in the
\* buffer is removed from it at some time, so that from some time on none
\* of those stored early enough to time out is left; and the tick leaves
\* no message of the time-out's age or older in the buffer, at whatever
\* index, and every younger one in its order.
C20_BufferedIsRemoved ==
    /\ [](Ready => periodically(State).buf = FreshBuffered)
    /\ <>[]~EarlyBuffered

\* The tick has found two messages next to each other timed out, and has
\* freed both.
C20_Witness ==
    /\ Len(out) = 2
    /\ out[1].if = "free" /\ out[2].if = "free"
    /\ out[1].key # out[2].key
    /\ now - out[2].msg.timeSentMilliseconds >= BufferTimeout
    /\ bufMap = <<>>

\* ------------------------------------------------------------ C16, C17

\* Every kind of event the core sends, as the pathfinder receives it.
PfProbes == CoreEventsOf(PFChan_Core, Versions)

\* The assertion the pathfinder's handler has failed, "" when none has.
PfFailure(p) ==
    IF p.failed THEN p.out[Len(p.out)].do ELSE ""

\* What handling CONNECT leaves in the pathfinder's record of its calls.
Connected == <<[do |-> "connected", ip6 |-> 0, path |-> 1]>>

\* The pathfinder's handler on msg, from the state the pathfinder is in.
PfHandled(msg, dht) == Pathfinder_incomingFromEventIf(PfState, msg, dht)

\* C16: the pathfinder starts in INITIALIZING; its state changes only from
\* INITIALIZING to RUNNING, and does so exactly when it handles a CONNECT
\* event while INITIALIZING; any other event handled while INITIALIZING
\* fails the assertion on the event's kind, runs no handler and leaves the
\* state as it is.
C16_PathfinderStartsOnce ==
    /\ pfState = Pathfinder_pvt_state_INITIALIZING
    /\ [][pfState' # pfState =>
             /\ pfState = Pathfinder_pvt_state_INITIALIZING
             /\ pfState' = Pathfinder_pvt_state_RUNNING
             /\ pfOut' = Connected]_vars
    /\ [](\A msg \in PfProbes, dht \in DhtAnswers :
            LET p == PfHandled(msg, dht)
            IN /\ pfState = Pathfinder_pvt_state_RUNNING
                    => p.state = Pathfinder_pvt_state_RUNNING
               /\ pfState = Pathfinder_pvt_state_INITIALIZING =>
                    IF msg.ev = "CONNECT"
                    THEN /\ p.state = Pathfinder_pvt_state_RUNNING
                         /\ p.out = Connected
                         /\ ~p.failed
                    ELSE /\ p.state = Pathfinder_pvt_state_INITIALIZING
                         /\ p.failed
                         /\ Len(p.out) = 1
                         /\ PfFailure(p) = "Assert_true(ev == PFChan_Core_CONNECT)")

\* The pathfinder has just handled its CONNECT, and a session exists whose
\* events it is to receive.
C16_Witness ==
    /\ pfState = Pathfinder_pvt_state_RUNNING
    /\ pfOut = Connected
    /\ ~failed
    /\ ifaceMap # <<>>

\* C17: whatever event a handler of the session manager has emitted, the
\* pathfinder, RUNNING, handles it without reaching the assertion on an
\* unexpected event.
C17_RunningAcceptsEmitted ==
    pfState = Pathfinder_pvt_state_RUNNING =>
        \A k \in EventsIn(out), dht \in DhtAnswers :
            PfFailure(PfHandled(PfEventOf(out[k]), dht))
                # "Assert_failure(unexpected event)"

\* ------------------------------------------------------------ C21

\* Handshakes from the peers: every nonce of a handshake, every label,
\* authentic or not.
HandshakeProbes == SwitchSetupFramesOf(Labels, 0..3, PeerKeys, ContentTypes)

\* Whether CryptoAuth accepts the handshake msg in a session just made for
\* its key.
FirstDecryptSucceeds(msg) ==
    CryptoAuth_decrypt(CryptoAuth_newSession(msg.publicKey), msg.nonceOrHandle,
                       msg.publicKey, msg.authentic).ret = 0

\* C21: a handshake from the switch with the key of a peer whose address
\* has no session creates the session with the metric SM_INCOMING, not
\* maintained, its send label the label on the wire bit-reversed, and
\* announces it; when CryptoAuth accepts the handshake the payload goes to
\* the inside with the flag INCOMING and nothing else, before it
\* DISCOVERED_PATH is emitted with that path (the path differing from the
\* receive label of a new session, which is zero), and the receive label
\* is the path; when CryptoAuth refuses it nothing goes to the inside.
C21_HandshakeIngress ==
    Ready =>
    \A msg \in HandshakeProbes, caTimedOut \in BOOLEAN :
        LET ip6 == AddressCalc_addressForPublicKey(msg.publicKey)
            path == Bits_bitReverse64(msg.label)
            r == incomingFromSwitchIf(State, msg, caTimedOut)
            at == Map_indexForKey(r.map, ip6)
            sess == r.map[at].value
        IN Map_indexForKey(ifaceMap, ip6) = 0 =>
              /\ ~r.failed
              /\ at = Len(ifaceMap) + 1 /\ Len(r.map) = at
              /\ SubSeq(r.map, 1, Len(ifaceMap)) = ifaceMap
              /\ sess.metric = Metric_SM_INCOMING
              /\ ~sess.maintainSession
              /\ sess.sendSwitchLabel = path
              /\ sess.caSession.herPublicKey = msg.publicKey
              /\ IsEvent(r.out[1], "SESSION", sess.receiveHandle)
              /\ r.out[1].path = path /\ r.out[1].metric = Metric_SM_INCOMING
              /\ IF FirstDecryptSucceeds(msg)
                 THEN /\ sess.recvSwitchLabel = path
                      /\ sess.sendHandle = msg.sendHandle
                      /\ LET last == r.out[Len(r.out)]
                         IN /\ last.if = "inside"
                            /\ last.flags = {"INCOMING"}
                            /\ last.label = path
                            /\ last.ip6 = ip6 /\ last.publicKey = msg.publicKey
                            /\ last.contentType = msg.contentType
                      /\ IF path # 0
                         THEN /\ Len(r.out) = 3
                              /\ IsEvent(r.out[2], "DISCOVERED_PATH", sess.receiveHandle)
                              /\ r.out[2].path = path
                         ELSE Len(r.out) = 2
                 ELSE /\ Len(r.out) = 2
                      /\ r.out[2].if = "switch" /\ r.out[2].kind = "failedDecrypt"
                      /\ sess.recvSwitchLabel = 0

\* A hello from a second peer, with the wire label whose bit-reverse is
\* another number, has made the second session: the session is announced, its
\* path discovered and the payload handed to the inside.
C21_Witness ==
    /\ Len(ifaceMap) = 2
    /\ Len(out) = 3
    /\ IsEvent(out[1], "SESSION", ifaceMap[2].value.receiveHandle)
    /\ IsEvent(out[2], "DISCOVERED_PATH", ifaceMap[2].value.receiveHandle)
    /\ out[3].if = "inside" /\ out[3].flags = {"INCOMING"}
    /\ ifaceMap[2].value.metric = Metric_SM_INCOMING
    /\ ifaceMap[2].value.sendSwitchLabel = 1
    /\ Bits_bitReverse64(1) # 1

\* NODE events with the key of their address: every version, path and
\* metric the pathfinder may report.
NodeProbes ==
    {node \in NodeEventsOf(PeerIps, PeerKeys, Versions, Labels, Metrics) :
        AddressCalc_addressForPublicKey(node.publicKey) = node.ip6}

\* A message waits for the node's address, and the event is not one about
\* the dead link of a node without a session.
Waiting(node) ==
    /\ Map_indexForKey(bufMap, node.ip6) > 0
    /\ ~(Map_indexForKey(ifaceMap, node.ip6) = 0 /\ node.metric = Metric_DEAD_LINK)

\* The state of the crypto session for ip6 as the handler finds it: that of
\* the session there, or of the one it is about to make.
CryptoStateFor(ip6) ==
    LET i == Map_indexForKey(ifaceMap, ip6)
    IN IF i = 0 THEN CryptoAuth_State_INIT
       ELSE CryptoAuth_getState(ifaceMap[i].value.caSession)

\* Whether the result r of a NODE event sent the message waiting for the
\* node's address to the switch, as one frame, and took it from the buffer.
Flushed(r, node) ==
    LET index == Map_indexForKey(bufMap, node.ip6)
        bm == bufMap[index].value
    IN /\ r.buf = Map_remove(bufMap, index)
       /\ Cardinality(SwitchFramesIn(r.out)) = 1
       /\ \A k \in SwitchFramesIn(r.out) :
             /\ r.out[k].kind = "data"
             /\ r.out[k].ip6 = node.ip6
             /\ r.out[k].contentType = bm.msg.contentType
       /\ \E k \in 1..Len(r.out) :
             r.out[k] = [if |-> "free", key |-> node.ip6, msg |-> bm]
       /\ \A k \in EventsIn(r.out) : r.out[k].ev # "UNSETUP_SESSION"

\* The UNSETUP_SESSION events for the session with handle h among the
\* outputs o.
UnsetupsIn(o, h) == {k \in 1..Len(o) : IsEvent(o[k], "UNSETUP_SESSION", h)}

\* C22, as stated: a NODE event for an address with a buffered
\* message sends the message to the switch and removes it from the buffer
\* when the session's crypto state is at least RECEIVED_KEY, and otherwise
\* keeps the message and emits UNSETUP_SESSION for the session.
C22_NodeFlushesOrUnsetups ==
    Ready =>
    \A node \in NodeProbes, caTimedOut \in BOOLEAN :
        LET r == incomingFromEventIf(State, node, caTimedOut)
            at == Map_indexForKey(r.map, node.ip6)
        IN Waiting(node) =>
              /\ ~r.failed
              /\ at > 0
              /\ IF CryptoStateFor(node.ip6) >= CryptoAuth_State_RECEIVED_KEY
                 THEN Flushed(r, node)
                 ELSE /\ r.buf = bufMap
                      /\ SwitchFramesIn(r.out) = {}
                      /\ Cardinality(UnsetupsIn(r.out, r.map[at].value.receiveHandle)) = 1

\* C22, as the code has it: below RECEIVED_KEY the message stays and
\* UNSETUP_SESSION is emitted only for a session that, updated by the event,
\* has a version and a label to send or to receive on; for a session
\* without them nothing is emitted.
C22_NodeFlushesOrUnsetupsRoutable ==
    Ready =>
    \A node \in NodeProbes, caTimedOut \in BOOLEAN :
        LET r == incomingFromEventIf(State, node, caTimedOut)
            at == Map_indexForKey(r.map, node.ip6)
            sess == r.map[at].value
        IN Waiting(node) =>
              /\ ~r.failed
              /\ at > 0
              /\ IF CryptoStateFor(node.ip6) >= CryptoAuth_State_RECEIVED_KEY
                 THEN Flushed(r, node)
                 ELSE /\ r.buf = bufMap
                      /\ SwitchFramesIn(r.out) = {}
                      /\ Cardinality(UnsetupsIn(r.out, sess.receiveHandle)) =
                            IF sess.version # 0
                               /\ (sess.sendSwitchLabel # 0 \/ sess.recvSwitchLabel # 0)
                            THEN 1 ELSE 0

\* The pathfinder has reported the link of a peer as dead while a message
\* waits for the peer and its session, made from the inside, has no label:
\* the message still waits and nothing was emitted.
C22_Witness ==
    /\ ~failed
    /\ out = <<>>
    /\ \E i \in 1..Len(ifaceMap) :
          LET sess == ifaceMap[i].value
          IN /\ Map_indexForKey(bufMap, ifaceMap[i].key) > 0
             /\ sess.sendSwitchLabel = 0 /\ sess.recvSwitchLabel = 0
             /\ sess.version # 0
             /\ CryptoAuth_getState(sess.caSession) < CryptoAuth_State_RECEIVED_KEY
             /\ incomingFromEventIf(State,
                    [ev |-> "NODE", ip6 |-> ifaceMap[i].key,
                     publicKey |-> sess.caSession.herPublicKey, version |-> 1,
                     path |-> 1, metric |-> Metric_DEAD_LINK], FALSE).out = <<>>

\* The message that waited while the handshake went on has been sent on the
\* NODE event and is out of the buffer.
C22_WitnessFlushed ==
    /\ Len(out) = 2
    /\ out[1].if = "switch" /\ out[1].kind = "data"
    /\ out[2].if = "free"
    /\ Map_indexForKey(bufMap, out[1].ip6) = 0
    /\ Map_indexForKey(ifaceMap, out[1].ip6) > 0

\* Whether every frame with a payload among the outputs o that is not a
\* CJDHT message was encrypted by a crypto session that, at the time of
\* encryption, had received the peer's key.
ForwardSecret(o) ==
    \A k \in SwitchFramesIn(o) :
        (o[k].kind = "data" /\ o[k].contentType # "CJDHT") =>
            o[k].caState >= CryptoAuth_State_RECEIVED_KEY

\* Frames from the inside with a payload, with and without a key, a
\* version and a label.
InsideProbes ==
    InsideFramesOf(PeerIps, {ZeroKey} \cup PeerKeys, Versions, {0, 1}, BOOLEAN,
                   ContentTypes)

\* C23: no payload other than CJDHT goes to the switch encrypted by a crypto
\* session that, at the time of encryption and after its reset if it had
\* timed out, was below RECEIVED_KEY, whether the payload comes from the
\* inside directly or was buffered and is sent on a NODE event.
C23_ForwardSecrecy == ForwardSecret(out)

\* C23, the part about direct sends: the frames incomingFromInsideIf sends
\* are forward secret, the crypto session timed out or not.
C23_DirectSendsSecret ==
    Ready =>
    \A msg \in InsideProbes, caTimedOut \in BOOLEAN :
        ForwardSecret(incomingFromInsideIf(State, msg, caTimedOut).out)

\* C23, the part about buffered messages: the frames incomingFromEventIf
\* sends for a crypto session that has not timed out are forward secret.
C23_FlushSecretUnlessTimedOut ==
    Ready =>
    \A node \in NodeProbes :
        ForwardSecret(incomingFromEventIf(State, node, FALSE).out)

\* A DATA message that waited was sent on a NODE event as the first packet
\* of a crypto session that had timed out and was reset.
C23_Witness ==
    /\ Len(out) = 2
    /\ out[1].if = "switch" /\ out[1].kind = "data"
    /\ out[1].contentType = "DATA"
    /\ out[1].caState = CryptoAuth_State_INIT
    /\ out[2].if = "free"

\* CJDHT frames from the inside, with the key of their address or none.
CjdhtProbes ==
    {msg \in InsideFramesOf(PeerIps, {ZeroKey} \cup PeerKeys, Versions, Labels,
                            BOOLEAN, {"CJDHT"}) :
        msg.publicKey # ZeroKey =>
            AddressCalc_addressForPublicKey(msg.publicKey) = msg.ip6}

\* Whether the manager lacks, for the frame msg, a version, a key or a path
\* to send it with: there is no session and the route header lacks one of
\* them, or the session and the route header both lack the version or both
\* lack the label.
Unroutable(msg) ==
    LET i == Map_indexForKey(ifaceMap, msg.ip6)
    IN IF i = 0
       THEN msg.publicKey = ZeroKey \/ msg.version = 0 \/ msg.label = 0
       ELSE \/ msg.version = 0 /\ ifaceMap[i].value.version = 0
            \/ msg.label = 0 /\ ifaceMap[i].value.sendSwitchLabel = 0

SearchesIn(o, h) == {k \in 1..Len(o) : IsEvent(o[k], "SEARCH_REQ", h)}

\* Whether the tick searches for the session sess: it is maintained and
\* its last search is sessionSearchAfterMilliseconds ago or more.
SearchDue(sess) ==
    /\ sess.maintainSession
    /\ now - sess.lastSearchTime >= sessionSearchAfterMilliseconds

\* Whether the crypto session of sess has not received the peer's key.
NotSetUp(sess) ==
    CryptoAuth_getState(sess.caSession) < CryptoAuth_State_RECEIVED_KEY

\* Whether sess has what unsetupSession needs to report it: a version and
\* a label to send or to receive on.
Routable(sess) ==
    sess.version # 0 /\ (sess.sendSwitchLabel # 0 \/ sess.recvSwitchLabel # 0)

\* C25, as stated: the tick emits UNSETUP_SESSION for every session
\* that has not timed out, gets no SEARCH_REQ in the tick and has not
\* received the peer's key, maintained or not.
C25_TickUnsetupsEvery ==
    Ready =>
    LET r == periodically(State)
    IN \A i \in 1..Len(ifaceMap) :
          LET sess == ifaceMap[i].value
          IN (~TimedOut(sess) /\ ~SearchDue(sess) /\ NotSetUp(sess)) =>
                Cardinality(UnsetupsIn(r.out, sess.receiveHandle)) = 1

\* C25, as the code has it: the tick emits UNSETUP_SESSION, once, for
\* exactly the sessions that have not timed out, are maintained, are not
\* searched for in the tick, have not received the peer's key and have a
\* version and a label; for a session that is not maintained it emits none.
C25_TickUnsetupsMaintained ==
    Ready =>
    LET r == periodically(State)
    IN /\ ~r.failed
       /\ \A i \in 1..Len(ifaceMap) :
             LET sess == ifaceMap[i].value
             IN Cardinality(UnsetupsIn(r.out, sess.receiveHandle)) =
                   IF /\ ~TimedOut(sess)
                      /\ sess.maintainSession
                      /\ ~SearchDue(sess)
                      /\ NotSetUp(sess)
                      /\ Routable(sess)
                   THEN 1 ELSE 0

\* A session that is not maintained, has a version and a label and has not
\* received the peer's key, and a maintained one beside it: the tick
\* reports the maintained one alone.
C25_Witness ==
    /\ Ready
    /\ \E i, j \in 1..Len(ifaceMap) :
          LET sess == ifaceMap[i].value
              other == ifaceMap[j].value
              r == periodically(State)
          IN /\ ~sess.maintainSession /\ ~TimedOut(sess)
             /\ NotSetUp(sess) /\ Routable(sess)
             /\ UnsetupsIn(r.out, sess.receiveHandle) = {}
             /\ other.maintainSession
             /\ UnsetupsIn(r.out, other.receiveHandle) # {}

\* C26: the tick emits exactly one SEARCH_REQ, for the session's address,
\* for each session that has not timed out, is maintained and was last
\* searched for sessionSearchAfterMilliseconds ago or more, and sets its
\* lastSearchTime to now; for a session that is not maintained it emits no
\* SEARCH_REQ and leaves lastSearchTime as it is.
C26_TickSearchesMaintained ==
    Ready =>
    LET r == periodically(State)
    IN \A i \in 1..Len(ifaceMap) :
          LET sess == ifaceMap[i].value
              at == Map_indexForKey(r.map, ifaceMap[i].key)
              found == SearchesIn(r.out, sess.receiveHandle)
          IN ~TimedOut(sess) =>
                /\ at > 0
                /\ r.map[at].value.receiveHandle = sess.receiveHandle
                /\ IF SearchDue(sess)
                   THEN /\ Cardinality(found) = 1
                        /\ \A k \in found : r.out[k].ip6 = ifaceMap[i].key
                        /\ r.map[at].value.lastSearchTime = now
                   ELSE /\ found = {}
                        /\ r.map[at].value.lastSearchTime = sess.lastSearchTime
                /\ ~sess.maintainSession => r.map[at].value = sess

\* The tick has searched for the maintained session and for no other, and
\* noted the time.
C26_Witness ==
    /\ Len(ifaceMap) = 2
    /\ \E i, j \in 1..2 :
          /\ ifaceMap[i].value.maintainSession
          /\ ifaceMap[i].value.lastSearchTime = now
          /\ ifaceMap[i].value.timeOfLastOut < now
          /\ ~ifaceMap[j].value.maintainSession
          /\ ifaceMap[j].value.lastSearchTime < now
          /\ Len(out) = 1
          /\ IsEvent(out[1], "SEARCH_REQ", ifaceMap[i].value.receiveHandle)
          /\ out[1].ip6 = ifaceMap[i].key

\* C27: getSession, given DEAD_LINK for a session and the label the session
\* sends on, sets the send label to 0 and the metric to DEAD_LINK when the
\* send and receive labels are equal, and otherwise sets the send label to
\* the receive label and the metric to SM_INCOMING; given DEAD_LINK and
\* another label it leaves the send label, the receive label and the metric
\* as they are.
C27_BrokenPathRule ==
    Ready =>
    \A i \in 1..Len(ifaceMap), version \in Versions, label \in Labels,
       maintainSession \in BOOLEAN :
        LET sess == ifaceMap[i].value
            is == Updated(i, version, label, Metric_DEAD_LINK, maintainSession)
        IN /\ is.recvSwitchLabel = sess.recvSwitchLabel
           /\ IF label # sess.sendSwitchLabel
              THEN /\ is.sendSwitchLabel = sess.sendSwitchLabel
                   /\ is.metric = sess.metric
              ELSE IF sess.sendSwitchLabel = sess.recvSwitchLabel
              THEN /\ is.sendSwitchLabel = 0
                   /\ is.metric = Metric_DEAD_LINK
              ELSE /\ is.sendSwitchLabel = sess.recvSwitchLabel
                   /\ is.metric = Metric_SM_INCOMING

\* The path the session sent on, which was the one the peer's frames come
\* in on, was reported broken: the session sends on none, still knows the
\* label it receives on, and its metric is DEAD_LINK.
C27_Witness ==
    \E i \in 1..Len(ifaceMap) :
        /\ ifaceMap[i].value.metric = Metric_DEAD_LINK
        /\ ifaceMap[i].value.sendSwitchLabel = 0
        /\ ifaceMap[i].value.recvSwitchLabel # 0

\* C28: getSession, given a metric other than DEAD_LINK for a session,
\* replaces the send label and the metric, and the version when the
\* caller's is not 0, if and only if the caller's metric is no greater than
\* the session's and the label is not 0; so the metric never grows, and a
\* label of 0 or a worse metric changes neither the label nor the metric.
C28_PathUpdateRule ==
    Ready =>
    \A i \in 1..Len(ifaceMap), version \in Versions, label \in Labels,
       metric \in Metrics \ {Metric_DEAD_LINK}, maintainSession \in BOOLEAN :
        LET sess == ifaceMap[i].value
            is == Updated(i, version, label, metric, maintainSession)
        IN /\ is.recvSwitchLabel = sess.recvSwitchLabel
           /\ is.metric <= sess.metric
           /\ IF metric <= sess.metric /\ label # 0
              THEN /\ is.sendSwitchLabel = label
                   /\ is.metric = metric
                   /\ is.version = IF version # 0 THEN version ELSE sess.version
              ELSE /\ is.sendSwitchLabel = sess.sendSwitchLabel
                   /\ is.metric = sess.metric
                   /\ is.version = IF sess.version # 0 THEN sess.version ELSE version

\* A session made from the inside, with the metric SM_SEND, sends on the
\* path of the better metric that the pathfinder has reported since.
C28_Witness ==
    \E i \in 1..Len(ifaceMap) :
        /\ ifaceMap[i].value.maintainSession
        /\ ifaceMap[i].value.metric = Metric_PF
        /\ ifaceMap[i].value.sendSwitchLabel = 2

\* Frames from the inside with a payload, with the key of their address or
\* none, that do not end in needsLookup's assertion about CJDHT.
KeyedProbes ==
    {msg \in InsideProbes :
        /\ msg.publicKey # ZeroKey =>
              AddressCalc_addressForPublicKey(msg.publicKey) = msg.ip6
        /\ msg.contentType = "CJDHT" => ~Unroutable(msg)}

\* C29: a frame from the inside with a payload, for an address without a
\* session, with a key and a version in its route header, creates the
\* session with metric SM_SEND and maintainSession set unless the frame has
\* the PATHFINDER flag, and emits one SESSION, first; a frame for an
\* address with a session changes neither the session's metric nor its
\* maintainSession, and creates and announces nothing.
C29_InsideCreatesSession ==
    Ready =>
    \A msg \in KeyedProbes, caTimedOut \in BOOLEAN :
        LET r == incomingFromInsideIf(State, msg, caTimedOut)
            i == Map_indexForKey(ifaceMap, msg.ip6)
            at == Map_indexForKey(r.map, msg.ip6)
            announced_ == {k \in 1..Len(r.out) :
                              r.out[k].if = "event" /\ r.out[k].ev = "SESSION"}
        IN /\ ~r.failed
           /\ IF i > 0
              THEN /\ Len(r.map) = Len(ifaceMap)
                   /\ r.map[i].value.metric = ifaceMap[i].value.metric
                   /\ r.map[i].value.maintainSession = ifaceMap[i].value.maintainSession
                   /\ r.map[i].value.receiveHandle = ifaceMap[i].value.receiveHandle
                   /\ announced_ = {}
              ELSE IF msg.publicKey # ZeroKey /\ msg.version # 0
              THEN /\ at = Len(ifaceMap) + 1
                   /\ Len(r.map) = at
                   /\ SubSeq(r.map, 1, Len(ifaceMap)) = ifaceMap
                   /\ r.map[at].value.metric = Metric_SM_SEND
                   /\ r.map[at].value.maintainSession = ~msg.pathfinder
                   /\ r.map[at].value.version = msg.version
                   /\ r.map[at].value.caSession.herPublicKey = msg.publicKey
                   /\ announced_ = {1}
                   /\ IsEvent(r.out[1], "SESSION", r.map[at].value.receiveHandle)
                   /\ r.out[1].metric = Metric_SM_SEND
              ELSE /\ r.map = ifaceMap
                   /\ announced_ = {}

\* A frame of the pathfinder's has made a session from the inside: its
\* metric is SM_SEND, it is not maintained, and SESSION was emitted first.
C29_Witness ==
    /\ Len(out) >= 1
    /\ out[1].if = "event" /\ out[1].ev = "SESSION"
    /\ out[1].metric = Metric_SM_SEND
    /\ \E i \in 1..Len(ifaceMap) :
          /\ ifaceMap[i].value.receiveHandle = out[1].sess
          /\ ifaceMap[i].value.metric = Metric_SM_SEND
          /\ ~ifaceMap[i].value.maintainSession

\* DATA frames from the inside for addresses that are not resolved: no key
\* in the route header, with and without a version and a label.
UnresolvedFrames ==
    InsideFramesOf(PeerIps, {ZeroKey}, Versions, {0, 1}, {FALSE}, {"DATA"})

\* The SEARCH_REQ that needsLookup emits for the frame msg.
SearchReqFor(msg) ==
    [if |-> "event", ev |-> "SEARCH_REQ", ip6 |-> msg.ip6, publicKey |-> ZeroKey,
     path |-> 0, metric |-> 0, version |-> msg.version, sess |-> 0]

\* C30: of two frames that need a lookup for the same address without a
\* session, the first is stored and a SEARCH_REQ for the address is the
\* last thing its handler emits; the second frees the first, is stored in
\* its place and is followed by a SEARCH_REQ of its own, and one message
\* waits for the address.  When the buffer is full of messages for other
\* addresses that have not timed out, the frame is dropped, the buffer
\* stays as it is and no SEARCH_REQ is emitted.
C30_BufferDisplacement ==
    Ready =>
    \A first, second \in UnresolvedFrames, caTimedOut \in BOOLEAN :
        LET ip6 == first.ip6
            r1 == incomingFromInsideIf(State, first, caTimedOut)
            r2 == incomingFromInsideIf([r1 EXCEPT !.out = <<>>], second, caTimedOut)
        IN (second.ip6 = ip6 /\ Map_indexForKey(ifaceMap, ip6) = 0) =>
              /\ ~r1.failed
              /\ ~r2.failed
              /\ IF RoomFor(ip6)
                 THEN /\ BufferedIn(r1, first)
                      /\ OneSearchReq(r1.out, ip6)
                      /\ r1.out[Len(r1.out)] = SearchReqFor(first)
                      /\ r2.out = <<[if |-> "free", key |-> ip6,
                                     msg |-> [msg |-> first,
                                              timeSentMilliseconds |-> now]],
                                    SearchReqFor(second)>>
                      /\ BufferedIn(r2, second)
                      /\ Cardinality({k \in 1..Len(r2.buf) : r2.buf[k].key = ip6}) = 1
                      /\ Len(r2.buf) = Len(r1.buf)
                 ELSE /\ r1.buf = bufMap
                      /\ EventsIn(r1.out) = {}
                      /\ r2.buf = bufMap
                      /\ EventsIn(r2.out) = {}

\* The second frame for an address without a session has taken the place
\* of the first, which was stored at the same time, and its own SEARCH_REQ
\* followed.
C30_Witness ==
    /\ Len(out) = 2
    /\ out[1].if = "free"
    /\ out[1].msg.timeSentMilliseconds = now
    /\ out[2] = SearchReqFor([ip6 |-> out[1].key, version |-> out[2].version])
    /\ Map_indexForKey(ifaceMap, out[1].key) = 0
    /\ Cardinality({k \in 1..Len(bufMap) : bufMap[k].key = out[1].key}) = 1
    /\ bufMap[Map_indexForKey(bufMap, out[1].key)].value.msg # out[1].msg.msg
    /\ Len(bufMap) = maxBufferedMessages

\* Frames from the switch that name a session: handshakes of the peers and
\* frames with a handle, on every path, authentic or not.
SessionProbes ==
    SwitchSetupFramesOf(Labels, 0..3, PeerKeys, ContentTypes)
    \cup SwitchRunFramesOf(Labels, {4}, ContentTypes)

\* The frames the result r hands to the inside with a payload: the frames
\* that were decrypted.
DecryptedIn(r) ==
    {k \in 1..Len(r.out) : r.out[k].if = "inside" /\ r.out[k].kind = "data"}

\* The DISCOVERED_PATH events for the session with handle h among the
\* outputs o.
PathsIn(o, h) == {k \in 1..Len(o) : IsEvent(o[k], "DISCOVERED_PATH", h)}

\* The label the session with handle h receives on in the table map, 0
\* when the session is not there yet.
RecvLabelOf(map, h) ==
    LET found == {i \in 1..Len(map) : map[i].value.receiveHandle = h}
    IN IF found = {} THEN 0
       ELSE map[CHOOSE i \in found : TRUE].value.recvSwitchLabel

\* C31: for every frame from the switch that is decrypted, DISCOVERED_PATH
\* is emitted, once and with the frame's path, if and only if that path
\* differs from the label the session received on, and afterwards the
\* session receives on that path; a second frame of the session on the same
\* path that is decrypted emits no DISCOVERED_PATH.
C31_DiscoveredPathOnChange ==
    Ready =>
    \A msg \in SessionProbes, caTimedOut \in BOOLEAN :
        LET path == Bits_bitReverse64(msg.label)
            r == incomingFromSwitchIf(State, msg, caTimedOut)
        IN (~r.failed /\ DecryptedIn(r) # {}) =>
              \A k \in DecryptedIn(r) :
                 LET h == r.out[k].sess
                 IN /\ Cardinality(DecryptedIn(r)) = 1
                    /\ RecvLabelOf(r.map, h) = path
                    /\ \A e \in EventsIn(r.out) :
                          r.out[e].ev = "DISCOVERED_PATH" => r.out[e].sess = h
                    /\ IF path # RecvLabelOf(ifaceMap, h)
                       THEN /\ Cardinality(PathsIn(r.out, h)) = 1
                            /\ \A e \in PathsIn(r.out, h) :
                                  r.out[e].path = path /\ e < k
                       ELSE PathsIn(r.out, h) = {}
                    /\ \A next \in {n \in SessionProbes :
                                        n.label = msg.label /\ n.authentic} :
                          LET r2 == incomingFromSwitchIf([r EXCEPT !.out = <<>>],
                                                         next, caTimedOut)
                          IN (~r2.failed
                              /\ \E j \in DecryptedIn(r2) : r2.out[j].sess = h)
                             => PathsIn(r2.out, h) = {}

\* A frame with the handle of a session set up has come in on another path
\* than the frames before: the session receives on the new path, and
\* DISCOVERED_PATH with it went out before the frame went inside.
C31_Witness ==
    /\ Len(out) = 2
    /\ out[1].if = "event" /\ out[1].ev = "DISCOVERED_PATH"
    /\ out[2].if = "inside" /\ out[2].kind = "data"
    /\ out[2].sess = out[1].sess
    /\ RecvLabelOf(ifaceMap, out[1].sess) = out[1].path
    /\ \E i \in 1..Len(ifaceMap) :
          /\ ifaceMap[i].value.receiveHandle = out[1].sess
          /\ ifaceMap[i].value.sendSwitchLabel # 0

\* The session with handle h in the table map.
SessionOf(map, h) ==
    map[CHOOSE i \in 1..Len(map) : map[i].value.receiveHandle = h].value

\* Whether the table map has a session with handle h.
HasSession(map, h) ==
    \E i \in 1..Len(map) : map[i].value.receiveHandle = h

\* The frames with a payload that the result r sends to the switch for the
\* session with handle h.
SentIn(r, h) ==
    {k \in SwitchFramesIn(r.out) : r.out[k].kind = "data" /\ r.out[k].sess = h}

\* What comes in from the inside or from the pathfinder and may send a
\* payload: frames with a payload, and NODE events.
SendingResults ==
    {incomingFromInsideIf(State, msg, caTimedOut) :
        msg \in InsideFramesOf({1, 2}, {ZeroKey, 11}, Versions, {0, 1}, {FALSE},
                               ContentTypes),
        caTimedOut \in BOOLEAN}
    \cup
    {incomingFromEventIf(State, node, caTimedOut) :
        node \in NodeEventsOf({1}, {11}, {1}, {1, 2}, {Metric_PF, Metric_DEAD_LINK}),
        caTimedOut \in BOOLEAN}

\* Frames from the switch that name the first peer's session: its
\* handshakes and frames with a handle, on two paths, authentic or not, with
\* a payload or a DHT message.
TrafficProbes ==
    SwitchSetupFramesOf({1, 2}, {0, 2}, {11}, ContentTypes)
    \cup SwitchRunFramesOf({1, 2}, {4}, ContentTypes)

\* C32: a frame from the switch that is decrypted sets the session's
\* timeOfKeepAliveIn to now and adds to bytesIn, and sets timeOfLastIn to
\* now only when its content type is not CJDHT; a handler that sends sets
\* timeOfLastOut to now only when it sends a payload that is not CJDHT.
\* So a session with CJDHT traffic alone does not time out, and its
\* timeOfLastIn and timeOfLastOut stay as they were.
C32_TimesOfTraffic ==
    Ready =>
    /\ \A msg \in TrafficProbes, caTimedOut \in BOOLEAN :
          LET r == incomingFromSwitchIf(State, msg, caTimedOut)
          IN \A k \in DecryptedIn(r) :
                LET h == r.out[k].sess
                    is == SessionOf(r.map, h)
                IN /\ is.timeOfKeepAliveIn = now
                   /\ ~TimedOut(is)
                   /\ HasSession(ifaceMap, h) =>
                         LET was == SessionOf(ifaceMap, h)
                         IN /\ is.bytesIn = (was.bytesIn + 1) % CounterModulus
                            /\ is.timeOfLastIn =
                                  IF msg.contentType # "CJDHT" THEN now
                                  ELSE was.timeOfLastIn
                            /\ is.timeOfLastOut = was.timeOfLastOut
                            /\ is.bytesOut = was.bytesOut
    /\ \A r \in SendingResults :
          ~r.failed =>
             \A i \in 1..Len(ifaceMap) :
                LET was == ifaceMap[i].value
                    h == was.receiveHandle
                    is == r.map[i].value
                    sent == SentIn(r, h)
                IN /\ is.receiveHandle = h
                   /\ is.timeOfLastOut =
                         IF \E k \in sent : r.out[k].contentType # "CJDHT"
                         THEN now ELSE was.timeOfLastOut
                   /\ is.bytesOut =
                         IF sent # {} THEN (was.bytesOut + 1) % CounterModulus
                         ELSE was.bytesOut
                   /\ is.timeOfLastIn = was.timeOfLastIn
                   /\ is.timeOfKeepAliveIn = was.timeOfKeepAliveIn
                   /\ Cardinality(sent) <= 1

\* A session that has heard and sent nothing since the clock moved on: a
\* CJDHT frame from its peer would be decrypted and keep it alive with
\* timeOfLastIn as it was, and a CJDHT frame to the peer would be sent with
\* timeOfLastOut as it was.
C32_Witness ==
    /\ Ready
    /\ \E i \in 1..Len(ifaceMap) :
          LET was == ifaceMap[i].value
          IN /\ was.timeOfLastIn < now
             /\ was.timeOfKeepAliveIn < now
             /\ was.timeOfLastOut < now
             /\ \E msg \in TrafficProbes :
                   LET r == incomingFromSwitchIf(State, msg, FALSE)
                   IN /\ msg.contentType = "CJDHT"
                      /\ \E k \in DecryptedIn(r) : r.out[k].sess = was.receiveHandle
                      /\ r.map[i].value.timeOfLastIn = was.timeOfLastIn
                      /\ r.map[i].value.timeOfKeepAliveIn = now
             /\ \E msg \in InsideFramesOf({1}, {11}, {1}, {1}, {FALSE}, {"CJDHT"}) :
                   LET r == incomingFromInsideIf(State, msg, FALSE)
                   IN /\ msg.contentType = "CJDHT"
                      /\ SentIn(r, was.receiveHandle) # {}
                      /\ r.map[i].value.timeOfLastOut = was.timeOfLastOut

\* The crypto state in which the handler that runs in the table map sends
\* for the session with handle h: the state the session has there, after
\* the reset of a crypto session that timed out; a session the handler
\* makes starts in INIT.
StateAtSend(map, h, caTimedOut) ==
    IF HasSession(map, h)
    THEN CryptoAuth_getState(
             CryptoAuth_resetIfTimeout(SessionOf(map, h).caSession, caTimedOut))
    ELSE CryptoAuth_State_INIT

\* What comes in from the inside or from the pathfinder and may send a
\* payload, with the answer of the crypto session's timeout.
SendingProbes ==
    ([kind : {"inside"},
      msg : InsideFramesOf({1, 2}, {ZeroKey, 11}, Versions, {0, 1}, {FALSE},
                           ContentTypes),
      caTimedOut : BOOLEAN])
    \cup
    ([kind : {"event"},
      msg : NodeEventsOf({1}, {11}, {1}, {1, 2}, {Metric_PF, Metric_DEAD_LINK}),
      caTimedOut : BOOLEAN])

\* The handler's result for a probe.
Sending(p) ==
    IF p.kind = "inside" THEN incomingFromInsideIf(State, p.msg, p.caTimedOut)
    ELSE incomingFromEventIf(State, p.msg, p.caTimedOut)

\* C33: every payload sent to the switch carries exactly one handle, by
\* the crypto session's state when it is sent: below RECEIVED_KEY the
\* session's receiveHandle inside what is encrypted and no sendHandle
\* before it; from RECEIVED_KEY on the sendHandle before what was
\* encrypted and no receiveHandle inside.
C33_OneHandleByCryptoState ==
    Ready =>
    \A p \in SendingProbes :
       LET r == Sending(p)
       IN ~r.failed =>
          \A k \in SwitchFramesIn(r.out) :
             r.out[k].kind = "data" =>
                LET f == r.out[k]
                    is == SessionOf(r.map, f.sess)
                IN /\ HasSession(r.map, f.sess)
                   /\ IF StateAtSend(ifaceMap, f.sess, p.caTimedOut)
                            < CryptoAuth_State_RECEIVED_KEY
                      THEN /\ f.innerHandle = is.receiveHandle
                           /\ f.outerHandle = NoHandle
                      ELSE /\ f.outerHandle = is.sendHandle
                           /\ f.innerHandle = NoHandle
                   /\ (f.innerHandle = NoHandle) # (f.outerHandle = NoHandle)

\* A payload has gone to the switch with the session's sendHandle before it
\* and no handle inside, from a session that had sent with its
\* receiveHandle inside before the peer's key came.
C33_Witness ==
    /\ Len(out) = 1
    /\ out[1].if = "switch" /\ out[1].kind = "data"
    /\ out[1].innerHandle = NoHandle
    /\ out[1].outerHandle # NoHandle
    /\ out[1].outerHandle = SessionOf(ifaceMap, out[1].sess).sendHandle
    /\ out[1].caState >= CryptoAuth_State_RECEIVED_KEY

\* A payload has gone to the switch with the session's receiveHandle inside
\* and no handle before it.
C33_WitnessPreKey ==
    /\ Len(out) = 1
    /\ out[1].if = "switch" /\ out[1].kind = "data"
    /\ out[1].innerHandle = SessionOf(ifaceMap, out[1].sess).receiveHandle
    /\ out[1].outerHandle = NoHandle
    /\ out[1].caState < CryptoAuth_State_RECEIVED_KEY

\* ------------------------------------------------------------ C34

\* SWITCH_ERR events from the core, on every path.
SwitchErrProbes ==
    {[msg EXCEPT !.path = l] :
        msg \in {m \in PfProbes : m.ev = "SWITCH_ERR"}, l \in Labels}

\* C34: the pathfinder, RUNNING, handles SWITCH_ERR by reporting the link
\* on the event's path broken to the node store, always; it starts a
\* search exactly when the node store had a link for that path, after the
\* report, and for the address of the link's child as it was before the
\* report.
C34_SwitchErrRule ==
    (pfState = Pathfinder_pvt_state_RUNNING /\ Ready) =>
    \A msg \in SwitchErrProbes, dht \in DhtAnswers :
       LET r == PfHandled(msg, dht)
           broken == [do |-> "NodeStore_brokenLink", ip6 |-> 0, path |-> msg.path]
           search == [do |-> "SearchRunner_search", ip6 |-> dht.child, path |-> 0]
       IN /\ ~r.failed
          /\ r.state = Pathfinder_pvt_state_RUNNING
          /\ r.out = IF dht.link THEN <<broken, search>> ELSE <<broken>>

\* The pathfinder has handled a SWITCH_ERR for a path that had a link: the
\* link was reported broken and the search for its child started.
C34_Witness ==
    /\ pfState = Pathfinder_pvt_state_RUNNING
    /\ ~failed
    /\ Len(pfOut) = 2
    /\ pfOut[1].do = "NodeStore_brokenLink"
    /\ pfOut[2].do = "SearchRunner_search"
    /\ pfOut[2].ip6 = 1

\* ------------------------------------------------------------ C35

\* MSG events from the core, on every path, the route header's version
\* known or not.
MsgProbes ==
    {[msg EXCEPT !.path = l] :
        msg \in {m \in PfProbes : m.ev = "MSG"}, l \in Labels}

\* The kinds of event a pathfinder sends to the core (wire/PFChan.h).
PFChan_Pathfinder ==
    {"CONNECT", "NODE", "SESSIONS", "SENDMSG", "PING", "PONG"}

\* What the pathfinder sent to the core among o, in order.
PfSentIn(o) ==
    SelectSeq(o, LAMBDA x : x.do \in PFChan_Pathfinder)

C35_WitnessNode ==
    /\ pfState = Pathfinder_pvt_state_RUNNING
    /\ ~failed
    /\ Len(pfOut) = 2
    /\ pfOut[1].do = "DHTModuleRegistry_handleIncoming"
    /\ pfOut[2].do = "NODE"

\* ------------------------------------------------------------ C36

\* Handshakes from the peers with a payload: every nonce of a handshake,
\* every label, authentic or not.
PeerHandshakes == SwitchSetupFramesOf(Labels, 0..3, PeerKeys, {"DATA"})

\* Whether CryptoAuth refuses the handshake msg: in the session at index i
\* of the table, after the reset of a crypto session that timed out, or in
\* a session just made when i is 0.
HandshakeRefused(i, msg, caTimedOut) ==
    LET ca == IF i = 0 THEN CryptoAuth_newSession(msg.publicKey)
              ELSE CryptoAuth_resetIfTimeout(ifaceMap[i].value.caSession, caTimedOut)
    IN CryptoAuth_decrypt(ca, msg.nonceOrHandle, msg.publicKey, msg.authentic).ret # 0

\* Whether the session's metric lets a path with the metric SM_INCOMING
\* replace its path.
IncomingPathApplies(sess, path) ==
    Metric_SM_INCOMING <= sess.metric /\ path # 0

\* C36: a handshake with the key of a peer makes the session, announced by
\* SESSION, when the peer's address has none, and otherwise gives the
\* session the frame's path and the metric SM_INCOMING when the session's
\* metric is not below SM_INCOMING and the path is not 0, all before
\* CryptoAuth sees the frame. When CryptoAuth then refuses the frame, the
\* reply to a failed decryption goes to the switch and nothing goes to the
\* inside, and the session made, or the send label and metric changed,
\* stay in the table.
C36_HandshakeUpdatesBeforeDecrypt ==
    Ready =>
    \A msg \in PeerHandshakes, caTimedOut \in BOOLEAN :
        LET ip6 == AddressCalc_addressForPublicKey(msg.publicKey)
            path == Bits_bitReverse64(msg.label)
            i == Map_indexForKey(ifaceMap, ip6)
            r == incomingFromSwitchIf(State, msg, caTimedOut)
            at == Map_indexForKey(r.map, ip6)
            is == r.map[at].value
            refused == HandshakeRefused(i, msg, caTimedOut)
        IN /\ ~r.failed
           /\ at > 0
           /\ r.buf = bufMap
           /\ IF i = 0
              THEN /\ Len(r.map) = Len(ifaceMap) + 1
                   /\ at = Len(r.map)
                   /\ SubSeq(r.map, 1, Len(ifaceMap)) = ifaceMap
                   /\ IsEvent(r.out[1], "SESSION", is.receiveHandle)
                   /\ is.metric = Metric_SM_INCOMING
                   /\ is.sendSwitchLabel = path
              ELSE LET was == ifaceMap[i].value
                   IN /\ at = i
                      /\ Len(r.map) = Len(ifaceMap)
                      /\ \A j \in 1..Len(ifaceMap) : j # i => r.map[j] = ifaceMap[j]
                      /\ is.receiveHandle = was.receiveHandle
                      /\ EventsOf(r.out, "SESSION") = {}
                      /\ IF IncomingPathApplies(was, path)
                         THEN /\ is.sendSwitchLabel = path
                              /\ is.metric = Metric_SM_INCOMING
                         ELSE /\ is.metric = was.metric
                              /\ is.sendSwitchLabel =
                                    IF was.sendSwitchLabel = 0 /\ ~refused THEN path
                                    ELSE was.sendSwitchLabel
           /\ refused =>
                 LET last == r.out[Len(r.out)]
                 IN /\ Len(r.out) = IF i = 0 THEN 2 ELSE 1
                    /\ last.if = "switch" /\ last.kind = "failedDecrypt"
                    /\ last.firstSixteen = msg.nonceOrHandle
                    /\ is.recvSwitchLabel = IF i = 0 THEN 0
                                            ELSE ifaceMap[i].value.recvSwitchLabel
                    /\ is.sendHandle = IF i = 0 THEN 0 ELSE ifaceMap[i].value.sendHandle
                    /\ i # 0 => is.bytesIn = ifaceMap[i].value.bytesIn
           /\ ~refused => r.out[Len(r.out)].if = "inside"

\* A session whose metric is not below SM_INCOMING and whose send label is
\* another than the path of a handshake that CryptoAuth refuses: the reply
\* goes to the switch and the session has the handshake's path.
C36_Witness ==
    /\ Ready
    /\ \E msg \in PeerHandshakes :
          LET ip6 == AddressCalc_addressForPublicKey(msg.publicKey)
              path == Bits_bitReverse64(msg.label)
              i == Map_indexForKey(ifaceMap, ip6)
              r == incomingFromSwitchIf(State, msg, FALSE)
          IN /\ i > 0
             /\ HandshakeRefused(i, msg, FALSE)
             /\ ifaceMap[i].value.metric > Metric_SM_INCOMING
             /\ ifaceMap[i].value.sendSwitchLabel \notin {0, path}
             /\ r.map[i].value.sendSwitchLabel = path
             /\ r.map[i].value.metric = Metric_SM_INCOMING
             /\ Len(r.out) = 1
             /\ r.out[1].kind = "failedDecrypt"

\* A session whose metric is the pathfinder's, below SM_INCOMING: a
\* handshake on another path that CryptoAuth refuses leaves its send label.
C36_WitnessKept ==
    /\ Ready
    /\ \E msg \in PeerHandshakes :
          LET ip6 == AddressCalc_addressForPublicKey(msg.publicKey)
              path == Bits_bitReverse64(msg.label)
              i == Map_indexForKey(ifaceMap, ip6)
              r == incomingFromSwitchIf(State, msg, FALSE)
          IN /\ i > 0
             /\ HandshakeRefused(i, msg, FALSE)
             /\ ifaceMap[i].value.metric < Metric_SM_INCOMING
             /\ ifaceMap[i].value.sendSwitchLabel \notin {0, path}
             /\ path # 0
             /\ r.map[i].value.sendSwitchLabel = ifaceMap[i].value.sendSwitchLabel
             /\ r.out[1].kind = "failedDecrypt"

====
